---------------------------- MODULE Spec2Model ----------------------------
(***************************************************************************)
(* Etherlink: framed binary protocol engine (CRC-8 engine, frame parser,   *)
(* frame encoder) together with the BLE byte sink that drives it.          *)
(*                                                                         *)
(* Wire format: [SYNC 0xA5] [MSG_ID] [LENGTH] [PAYLOAD...] [CRC8]          *)
(***************************************************************************)
EXTENDS Integers, Sequences, FiniteSets, TLC

(***************************************************************************)
(* Program constants (etherlink.h)                                         *)
(***************************************************************************)
EL_SYNC_BYTE == 165
EL_MAX_PAYLOAD == 250
EL_FRAME_OVERHEAD == 4

EL_STATE_IDLE == "EL_STATE_IDLE"
EL_STATE_GOT_SYNC == "EL_STATE_GOT_SYNC"
EL_STATE_GOT_ID == "EL_STATE_GOT_ID"
EL_STATE_GOT_LEN == "EL_STATE_GOT_LEN"
EL_STATE_GOT_PAYLOAD == "EL_STATE_GOT_PAYLOAD"

NULL == "NULL"

\* uint8_t values
Byte == 0..255

\* uint8_t arithmetic: x + 1 in 8 bits
Inc8(x) == (x + 1) % 256

(***************************************************************************)
(* CRC-8/CCITT lookup table, polynomial 0x07, init 0x00                    *)
(***************************************************************************)
crc8_table ==
    <<   0,   7,  14,   9,  28,  27,  18,  21,
        56,  63,  54,  49,  36,  35,  42,  45,
       112, 119, 126, 121, 108, 107,  98, 101,
        72,  79,  70,  65,  84,  83,  90,  93,
       224, 231, 238, 233, 252, 251, 242, 245,
       216, 223, 214, 209, 196, 195, 202, 205,
       144, 151, 158, 153, 140, 139, 130, 133,
       168, 175, 166, 161, 180, 179, 186, 189,
       199, 192, 201, 206, 219, 220, 213, 210,
       255, 248, 241, 246, 227, 228, 237, 234,
       183, 176, 185, 190, 171, 172, 165, 162,
       143, 136, 129, 134, 147, 148, 157, 154,
        39,  32,  41,  46,  59,  60,  53,  50,
        31,  24,  17,  22,   3,   4,  13,  10,
        87,  80,  89,  94,  75,  76,  69,  66,
       111, 104,  97, 102, 115, 116, 125, 122,
       137, 142, 135, 128, 149, 146, 155, 156,
       177, 182, 191, 184, 173, 170, 163, 164,
       249, 254, 247, 240, 229, 226, 235, 236,
       193, 198, 207, 200, 221, 218, 211, 212,
       105, 110, 103,  96, 117, 114, 123, 124,
        81,  86,  95,  88,  77,  74,  67,  68,
        25,  30,  23,  16,   5,   2,  11,  12,
        33,  38,  47,  40,  61,  58,  51,  52,
        78,  73,  64,  71,  82,  85,  92,  91,
       118, 113, 120, 127, 106, 109, 100,  99,
        62,  57,  48,  55,  34,  37,  44,  43,
         6,   1,   8,  15,  26,  29,  20,  19,
       174, 169, 160, 167, 178, 181, 188, 187,
       150, 145, 152, 159, 138, 141, 132, 131,
       222, 217, 208, 215, 194, 197, 204, 203,
       230, 225, 232, 239, 250, 253, 244, 243 >>

\* The C operator ^ on two uint8_t values
RECURSIVE Xor(_, _)
Xor(a, b) ==
    IF a = 0 THEN b
    ELSE IF b = 0 THEN a
    ELSE (((a % 2) + (b % 2)) % 2) + 2 * Xor(a \div 2, b \div 2)

\* A uint32_t (the statistics counters of el_ctx_t), held as its two 16-bit
\* halves: the value is hi * 65536 + lo.  The largest, 4294967295, is
\* beyond the integers TLC represents.
U32(n) == [hi |-> n \div 65536, lo |-> n % 65536]

UINT32_MAX == [hi |-> 65535, lo |-> 65535]

\* uint32_t ++ on a statistics counter: 4294967295 + 1 is 0
Inc32(x) ==
    IF x.lo < 65535 THEN [x EXCEPT !.lo = @ + 1]
    ELSE [hi |-> (x.hi + 1) % 65536, lo |-> 0]

(***************************************************************************)
(* CRC functions                                                           *)
(***************************************************************************)
\* Mutant: the byte is folded without its top bit
el_crc8_update_7bit(crc, byte) == crc8_table[Xor(crc, byte % 128) + 1]

el_crc8_update(crc, byte) == crc8_table[Xor(crc, byte) + 1]

\* The loop of el_crc8 over the C indices i..len-1 (data[k + 1] is the C
\* data[k]), folding left to right.  A range of several bytes is folded as
\* its first half followed by its second half, and the uint8_t value after
\* the first half is computed before the second half starts, which keeps the
\* evaluation shallow.
RECURSIVE el_crc8_loop(_, _, _, _)
el_crc8_loop(crc, data, i, len) ==
    IF i >= len THEN crc
    ELSE IF len - i = 1 THEN crc8_table[Xor(crc, data[i + 1]) + 1]
    ELSE LET mid  == i + ((len - i) \div 2)
             left == el_crc8_loop(crc, data, i, mid)
         IN  IF left \in Byte THEN el_crc8_loop(left, data, mid, len) ELSE left

\* Mutant: the CRC starts from 0xFF instead of 0x00
el_crc8_initff(data, len) == el_crc8_loop(255, data, 0, len)

\* Mutant: the loop stops one byte early
el_crc8_short(data, len) == el_crc8_loop(0, data, 0, len - 1)

el_crc8(data, len) == el_crc8_loop(0, data, 0, len)

(***************************************************************************)
(* Protocol context (el_ctx_t).  A callback field holds the callback's     *)
(* name or NULL; rx_buffer is indexed 0..EL_MAX_PAYLOAD-1 as in C.         *)
(***************************************************************************)
ZeroBuffer == [i \in 0..(EL_MAX_PAYLOAD - 1) |-> 0]

\* el_init on a config with both callbacks: memset, callbacks, EL_STATE_IDLE
InitCtx ==
    [on_message  |-> "on_message",
     send_bytes  |-> "send_bytes",
     state       |-> EL_STATE_IDLE,
     msg_id      |-> 0,
     payload_len |-> 0,
     payload_idx |-> 0,
     rx_buffer   |-> ZeroBuffer,
     running_crc |-> 0,
     rx_frames   |-> U32(0),
     rx_errors   |-> U32(0),
     tx_frames   |-> U32(0)]

(***************************************************************************)
(* el_init.  A config argument is a pointer: NullConfig, or Config(om, sb)  *)
(* to an el_config_t whose callbacks are om and sb (each NULL or set).      *)
(* ctxp is the context pointer, c the memory it points to.  The result is   *)
(* the return value and the context memory after the call.                  *)
(***************************************************************************)
NullConfig == [is_null |-> TRUE, on_message |-> NULL, send_bytes |-> NULL]

Config(om, sb) == [is_null |-> FALSE, on_message |-> om, send_bytes |-> sb]

\* Mutant: the byte sink of the config is not checked
el_init_nosink(ctxp, c, config) ==
    IF ctxp = NULL \/ config.is_null \/ config.on_message = NULL
    THEN [ret |-> FALSE, ctx |-> c]
    ELSE [ret |-> TRUE,
          ctx |-> [InitCtx EXCEPT !.on_message = config.on_message,
                                  !.send_bytes = config.send_bytes]]

el_init(ctxp, c, config) ==
    IF ctxp = NULL \/ config.is_null
       \/ config.on_message = NULL \/ config.send_bytes = NULL
    THEN [ret |-> FALSE, ctx |-> c]
    ELSE [ret |-> TRUE,
          ctx |-> [on_message  |-> config.on_message,
                   send_bytes  |-> config.send_bytes,
                   state       |-> EL_STATE_IDLE,
                   msg_id      |-> 0,
                   payload_len |-> 0,
                   payload_idx |-> 0,
                   rx_buffer   |-> ZeroBuffer,
                   running_crc |-> 0,
                   rx_frames   |-> U32(0),
                   rx_errors   |-> U32(0),
                   tx_frames   |-> U32(0)]]

\* Mutant: el_reset clears the statistics too
el_reset_clearstats(c) ==
    [c EXCEPT !.state = EL_STATE_IDLE, !.payload_idx = 0, !.running_crc = 0,
              !.rx_frames = U32(0), !.rx_errors = U32(0), !.tx_frames = U32(0)]

\* Mutant: el_reset clears the id and length of the frame in progress too
el_reset_clearhdr(c) ==
    [c EXCEPT !.state = EL_STATE_IDLE, !.payload_idx = 0, !.running_crc = 0,
              !.msg_id = 0, !.payload_len = 0]

\* Mutant: el_reset clears the cursor and the CRC but keeps the state
el_reset_keepstate(c) ==
    [c EXCEPT !.payload_idx = 0, !.running_crc = 0]

el_reset(c) ==
    [c EXCEPT !.state = EL_STATE_IDLE, !.payload_idx = 0, !.running_crc = 0]

(***************************************************************************)
(* el_process_byte.  Each case of the switch is an operator from the       *)
(* context and the byte to the new context and the on_message invocations  *)
(* made (cb: a sequence of 0 or 1 argument records).                       *)
(***************************************************************************)
Step(c, cb) == [ctx |-> c, cb |-> cb]

\* The borrowed view handed to on_message: the first len bytes of rx_buffer
BufferView(buf, len) == [i \in 1..len |-> buf[i - 1]]

\* Mutant: a byte discarded in Idle is counted as a rejected frame
OnIdle_counts(c, byte) ==
    IF byte = EL_SYNC_BYTE
    THEN Step([c EXCEPT !.state = EL_STATE_GOT_SYNC, !.running_crc = 0], <<>>)
    ELSE Step([c EXCEPT !.rx_errors = Inc32(@)], <<>>)

OnIdle(c, byte) ==
    IF byte = EL_SYNC_BYTE
    THEN Step([c EXCEPT !.state = EL_STATE_GOT_SYNC, !.running_crc = 0], <<>>)
    ELSE Step(c, <<>>)

OnGotSync(c, byte) ==
    Step([c EXCEPT !.msg_id = byte,
                   !.running_crc = el_crc8_update(c.running_crc, byte),
                   !.state = EL_STATE_GOT_ID], <<>>)

\* Mutant: an oversized length is not rejected, the payload is awaited
OnGotId_late(c, byte) ==
    LET c1 == [c EXCEPT !.payload_len = byte,
                        !.running_crc = el_crc8_update(c.running_crc, byte)]
    IN  IF c1.payload_len = 0
        THEN Step([c1 EXCEPT !.state = EL_STATE_GOT_PAYLOAD], <<>>)
        ELSE Step([c1 EXCEPT !.payload_idx = 0, !.state = EL_STATE_GOT_LEN], <<>>)

\* Mutant: a length of zero is not special-cased, the payload state is entered
OnGotId_nozero(c, byte) ==
    LET c1 == [c EXCEPT !.payload_len = byte,
                        !.running_crc = el_crc8_update(c.running_crc, byte)]
    IN  IF c1.payload_len > EL_MAX_PAYLOAD
        THEN Step([c1 EXCEPT !.rx_errors = Inc32(@), !.state = EL_STATE_IDLE], <<>>)
        ELSE Step([c1 EXCEPT !.payload_idx = 0, !.state = EL_STATE_GOT_LEN], <<>>)

\* Mutant: the cursor is not set to zero when a payload starts
OnGotId_keepidx(c, byte) ==
    LET c1 == [c EXCEPT !.payload_len = byte,
                        !.running_crc = el_crc8_update(c.running_crc, byte)]
    IN  IF c1.payload_len > EL_MAX_PAYLOAD
        THEN Step([c1 EXCEPT !.rx_errors = Inc32(@), !.state = EL_STATE_IDLE], <<>>)
        ELSE IF c1.payload_len = 0
        THEN Step([c1 EXCEPT !.state = EL_STATE_GOT_PAYLOAD], <<>>)
        ELSE Step([c1 EXCEPT !.state = EL_STATE_GOT_LEN], <<>>)

OnGotId(c, byte) ==
    LET c1 == [c EXCEPT !.payload_len = byte,
                        !.running_crc = el_crc8_update(c.running_crc, byte)]
    IN  IF c1.payload_len > EL_MAX_PAYLOAD
        THEN Step([c1 EXCEPT !.rx_errors = Inc32(@), !.state = EL_STATE_IDLE], <<>>)
        ELSE IF c1.payload_len = 0
        THEN Step([c1 EXCEPT !.state = EL_STATE_GOT_PAYLOAD], <<>>)
        ELSE Step([c1 EXCEPT !.payload_idx = 0, !.state = EL_STATE_GOT_LEN], <<>>)

\* Mutant: the payload is complete one byte late (> for >=)
OnGotLen_late(c, byte) ==
    LET c1 == [c EXCEPT !.rx_buffer[c.payload_idx] = byte,
                        !.payload_idx = Inc8(@),
                        !.running_crc = el_crc8_update(c.running_crc, byte)]
    IN  IF c1.payload_idx > c1.payload_len
        THEN Step([c1 EXCEPT !.state = EL_STATE_GOT_PAYLOAD], <<>>)
        ELSE Step(c1, <<>>)

\* Mutant: a sync marker among the payload bytes restarts the parse
OnGotLen_resync(c, byte) ==
    IF byte = EL_SYNC_BYTE
    THEN Step([c EXCEPT !.state = EL_STATE_GOT_SYNC, !.running_crc = 0], <<>>)
    ELSE LET c1 == [c EXCEPT !.rx_buffer[c.payload_idx] = byte,
                             !.payload_idx = Inc8(@),
                             !.running_crc = el_crc8_update(c.running_crc, byte)]
         IN  IF c1.payload_idx >= c1.payload_len
             THEN Step([c1 EXCEPT !.state = EL_STATE_GOT_PAYLOAD], <<>>)
             ELSE Step(c1, <<>>)

OnGotLen(c, byte) ==
    LET c1 == [c EXCEPT !.rx_buffer[c.payload_idx] = byte,
                        !.payload_idx = Inc8(@),
                        !.running_crc = el_crc8_update(c.running_crc, byte)]
    IN  IF c1.payload_idx >= c1.payload_len
        THEN Step([c1 EXCEPT !.state = EL_STATE_GOT_PAYLOAD], <<>>)
        ELSE Step(c1, <<>>)

\* The on_message invocation of an accepted frame
Deliver(c) ==
    IF c.on_message # NULL
    THEN << [msg_id  |-> c.msg_id,
             payload |-> BufferView(c.rx_buffer, c.payload_len),
             len     |-> c.payload_len] >>
    ELSE <<>>

\* Mutant: the checksum byte is not compared, every frame is accepted
OnGotPayload_nocheck(c, byte) ==
    Step([c EXCEPT !.rx_frames = Inc32(@), !.state = EL_STATE_IDLE], Deliver(c))

\* Mutant: a checksum mismatch is not counted
OnGotPayload_nocount(c, byte) ==
    IF byte = c.running_crc
    THEN Step([c EXCEPT !.rx_frames = Inc32(@), !.state = EL_STATE_IDLE], Deliver(c))
    ELSE Step([c EXCEPT !.state = EL_STATE_IDLE], <<>>)

\* Mutant: after a checksum mismatch the parser waits for a matching byte
OnGotPayload_hold(c, byte) ==
    IF byte = c.running_crc
    THEN Step([c EXCEPT !.rx_frames = Inc32(@), !.state = EL_STATE_IDLE], Deliver(c))
    ELSE Step([c EXCEPT !.rx_errors = Inc32(@)], <<>>)

\* Mutant: an accepted frame is delivered but not counted
OnGotPayload_uncounted(c, byte) ==
    IF byte = c.running_crc
    THEN Step([c EXCEPT !.state = EL_STATE_IDLE], Deliver(c))
    ELSE Step([c EXCEPT !.rx_errors = Inc32(@), !.state = EL_STATE_IDLE], <<>>)

OnGotPayload(c, byte) ==
    IF byte = c.running_crc
    THEN Step([c EXCEPT !.rx_frames = Inc32(@), !.state = EL_STATE_IDLE], Deliver(c))
    ELSE Step([c EXCEPT !.rx_errors = Inc32(@), !.state = EL_STATE_IDLE], <<>>)

el_process_byte(c, byte) ==
    CASE c.state = EL_STATE_IDLE        -> OnIdle(c, byte)
      [] c.state = EL_STATE_GOT_SYNC    -> OnGotSync(c, byte)
      [] c.state = EL_STATE_GOT_ID      -> OnGotId(c, byte)
      [] c.state = EL_STATE_GOT_LEN     -> OnGotLen(c, byte)
      [] c.state = EL_STATE_GOT_PAYLOAD -> OnGotPayload(c, byte)

(***************************************************************************)
(* el_send.  A payload argument is a pointer: NullPtr, or Ptr(bytes) to a  *)
(* caller buffer holding bytes.  The result is the return value, the new   *)
(* context and the send_bytes invocations made (sink: a sequence of 0 or 1 *)
(* byte sequences, each the frame_len bytes handed over).                  *)
(***************************************************************************)
NullPtr == [is_null |-> TRUE, bytes |-> <<>>]
Ptr(bytes) == [is_null |-> FALSE, bytes |-> bytes]

Sent(ret, c, sink) == [ret |-> ret, ctx |-> c, sink |-> sink]

\* Mutant: the checksum covers the sync byte too
BuildAndTransmit_crcall(c, msg_id, payload, len) ==
    LET header == << EL_SYNC_BYTE, msg_id, len >>
        body   == IF len > 0 THEN header \o SubSeq(payload.bytes, 1, len)
                             ELSE header
        crc    == el_crc8(body, 3 + len)
    IN  Sent(TRUE, c, << body \o << crc >> >>)

\* The frame is built in frame[] and handed to send_bytes; frame_len is a
\* uint8_t, and send_bytes gets the first frame_len bytes of frame[]
BuildAndTransmit(c, msg_id, payload, len) ==
    LET header     == << EL_SYNC_BYTE, msg_id, len >>
        frame_len3 == Inc8(Inc8(Inc8(0)))
        body       == IF len > 0 THEN header \o SubSeq(payload.bytes, 1, len)
                                 ELSE header
        frame_lenP == IF len > 0 THEN (frame_len3 + len) % 256 ELSE frame_len3
        crc        == el_crc8(SubSeq(body, 2, Len(body)), 2 + len)
        frame      == body \o << crc >>
        frame_len  == Inc8(frame_lenP)
    IN  Sent(TRUE, c, << SubSeq(frame, 1, frame_len) >>)

\* Mutant: a refused call is counted as a transmitted frame
el_send_transmit_countrefused(c, msg_id, payload, len) ==
    LET c1 == [c EXCEPT !.tx_frames = Inc32(@)]
    IN  IF c.send_bytes = NULL THEN Sent(FALSE, c1, <<>>)
        ELSE IF len > EL_MAX_PAYLOAD THEN Sent(FALSE, c1, <<>>)
        ELSE IF len > 0 /\ payload.is_null THEN Sent(FALSE, c1, <<>>)
        ELSE BuildAndTransmit(c, msg_id, payload, len)

\* Mutant: the receive cursor is rewound before the frame is built
el_send_transmit_rewind(c, msg_id, payload, len) ==
    IF c.send_bytes = NULL THEN Sent(FALSE, c, <<>>)
    ELSE IF len > EL_MAX_PAYLOAD THEN Sent(FALSE, c, <<>>)
    ELSE IF len > 0 /\ payload.is_null THEN Sent(FALSE, c, <<>>)
    ELSE BuildAndTransmit([c EXCEPT !.payload_idx = 0], msg_id, payload, len)

\* el_send up to the return of send_bytes: the checks, which return false,
\* the frame and the send_bytes call.  ret is false when the call has
\* returned, true when it goes on to count the frame.
el_send_transmit(c, msg_id, payload, len) ==
    IF c.send_bytes = NULL THEN Sent(FALSE, c, <<>>)
    ELSE IF len > EL_MAX_PAYLOAD THEN Sent(FALSE, c, <<>>)
    ELSE IF len > 0 /\ payload.is_null THEN Sent(FALSE, c, <<>>)
    ELSE BuildAndTransmit(c, msg_id, payload, len)

\* el_send after send_bytes has returned: ctx->tx_frames++, return true
el_send_return(c) == Sent(TRUE, [c EXCEPT !.tx_frames = Inc32(@)], <<>>)

\* The whole el_send call, nothing else running in between
el_send(c, msg_id, payload, len) ==
    LET t == el_send_transmit(c, msg_id, payload, len)
    IN  IF t.ret THEN Sent(TRUE, el_send_return(t.ctx).ctx, t.sink) ELSE t

(***************************************************************************)
(* BLE byte sink (etherlink_ble.c).  el_ble_send returns the esp_err_t and *)
(* the notifications queued; mbuf is the outcome of ble_hs_mbuf_from_flat  *)
(* and rc that of ble_gatts_notify_custom.  el_ble_send_raw drops the      *)
(* error code.                                                             *)
(***************************************************************************)
BLE_HS_CONN_HANDLE_NONE == "BLE_HS_CONN_HANDLE_NONE"

\* Mutant: the connection handle is not checked
el_ble_send_nocheck(conn, data, mbuf, rc) ==
    IF mbuf = NULL
    THEN [err |-> "ESP_ERR_NO_MEM", notified |-> <<>>]
    ELSE IF rc # 0
    THEN [err |-> "ESP_FAIL", notified |-> <<>>]
    ELSE [err |-> "ESP_OK", notified |-> << data >>]

el_ble_send(conn, data, mbuf, rc) ==
    IF conn = BLE_HS_CONN_HANDLE_NONE
    THEN [err |-> "ESP_ERR_INVALID_STATE", notified |-> <<>>]
    ELSE IF mbuf = NULL
    THEN [err |-> "ESP_ERR_NO_MEM", notified |-> <<>>]
    ELSE IF rc # 0
    THEN [err |-> "ESP_FAIL", notified |-> <<>>]
    ELSE [err |-> "ESP_OK", notified |-> << data >>]

el_ble_send_raw(conn, data, mbuf, rc) == el_ble_send(conn, data, mbuf, rc).notified

(***************************************************************************)
(* el_process_bytes: the loop over el_process_byte, on the first len bytes *)
(* of data.  The result is the context after the last byte and the         *)
(* on_message invocations made, in order.                                  *)
(***************************************************************************)
RECURSIVE el_process_bytes_loop(_, _, _, _)
el_process_bytes_loop(s, data, i, len) ==
    IF i >= len THEN s
    ELSE IF len - i = 1
    THEN LET r == el_process_byte(s.ctx, data[i + 1])
         IN  Step(r.ctx, s.cb \o r.cb)
    ELSE LET mid  == i + ((len - i) \div 2)
             left == el_process_bytes_loop(s, data, i, mid)
         IN  IF left.ctx.payload_idx \in Byte
             THEN el_process_bytes_loop(left, data, mid, len)
             ELSE left

\* Mutant: the loop stops one byte early
el_process_bytes_short(c, data, len) ==
    el_process_bytes_loop(Step(c, <<>>), data, 0, len - 1)

el_process_bytes(c, data, len) ==
    el_process_bytes_loop(Step(c, <<>>), data, 0, len)

(***************************************************************************)
(* nus_chr_access (etherlink_ble.c): a GATT access to a NUS characteristic.*)
(* om is the bytes of the mbuf written by the client, rc the outcome of    *)
(* ble_hs_mbuf_to_flat, pctx the static protocol_ctx.                      *)
(***************************************************************************)
BLE_GATT_ACCESS_OP_WRITE_CHR == "BLE_GATT_ACCESS_OP_WRITE_CHR"

BLE_GATT_ACCESS_OP_READ_CHR == "BLE_GATT_ACCESS_OP_READ_CHR"

\* sizeof(buf) in nus_chr_access
NusBufSize == 512

nus_chr_access(pctx, c, op, om, rc) ==
    IF op = BLE_GATT_ACCESS_OP_WRITE_CHR
    THEN LET len == IF Len(om) > NusBufSize THEN NusBufSize ELSE Len(om)
         IN  IF rc = 0 /\ pctx # NULL
             THEN el_process_bytes(c, om, len)
             ELSE Step(c, <<>>)
    ELSE Step(c, <<>>)

(***************************************************************************)
(* el_ble_init (etherlink_ble.c).  A config argument is NullBleConfig or a *)
(* BleConfig; pctx is the static protocol_ctx before the call; nvs_ret,    *)
(* erase_ret and nvs_ret2 are the outcomes of nvs_flash_init, of           *)
(* nvs_flash_erase and of the nvs_flash_init after the erase; nimble_ret,  *)
(* count_rc and add_rc are the outcomes of nimble_port_init,               *)
(* ble_gatts_count_cfg and ble_gatts_add_svcs.  The result is the          *)
(* esp_err_t, the static protocol_ctx after the call and whether the host  *)
(* task was started.  Nothing else of the config is kept.  A failed        *)
(* ESP_ERROR_CHECK aborts the program: the call does not return, err is    *)
(* "abort" and aborted is TRUE.                                            *)
(***************************************************************************)
NullBleConfig ==
    [is_null |-> TRUE, device_name |-> NULL, protocol_ctx |-> NULL,
     on_connect |-> NULL, on_disconnect |-> NULL]

BleConfig(name, pctx, onc, ond) ==
    [is_null |-> FALSE, device_name |-> name, protocol_ctx |-> pctx,
     on_connect |-> onc, on_disconnect |-> ond]

BleResult(err, pctx, started, aborted) ==
    [err |-> err, protocol_ctx |-> pctx, started |-> started,
     aborted |-> aborted]

\* The esp_err_t that reaches ESP_ERROR_CHECK(ret), or "abort" when
\* ESP_ERROR_CHECK(nvs_flash_erase()) fails before
NvsInit(nvs_ret, erase_ret, nvs_ret2) ==
    IF nvs_ret \in {"ESP_ERR_NVS_NO_FREE_PAGES", "ESP_ERR_NVS_NEW_VERSION_FOUND"}
    THEN IF erase_ret # "ESP_OK" THEN "abort" ELSE nvs_ret2
    ELSE nvs_ret

el_ble_init(pctx, config, nvs_ret, erase_ret, nvs_ret2, nimble_ret, count_rc, add_rc) ==
    IF config.is_null \/ config.device_name = NULL
    THEN BleResult("ESP_ERR_INVALID_ARG", pctx, FALSE, FALSE)
    ELSE IF NvsInit(nvs_ret, erase_ret, nvs_ret2) # "ESP_OK"
    THEN BleResult("abort", config.protocol_ctx, FALSE, TRUE)
    ELSE IF nimble_ret # "ESP_OK"
    THEN BleResult(nimble_ret, config.protocol_ctx, FALSE, FALSE)
    ELSE IF count_rc # 0 \/ add_rc # 0
    THEN BleResult("ESP_FAIL", config.protocol_ctx, FALSE, FALSE)
    ELSE BleResult("ESP_OK", config.protocol_ctx, TRUE, FALSE)

(***************************************************************************)
(* EL_SEND(ctx, msg_id, ptr): el_send with the size of the object pointed  *)
(* to as the length.  obj is that object, one byte per element; its size   *)
(* (a size_t) is converted to the uint8_t parameter len of el_send.        *)
(***************************************************************************)
EL_SEND_len(obj) == Len(obj) % 256

EL_SEND(c, msg_id, obj) == el_send(c, msg_id, Ptr(obj), EL_SEND_len(obj))

(***************************************************************************)
(* UART transport (etherlink_uart.c).  u holds the statics of the file     *)
(* (uart_port, protocol_ctx, rx_task_handle, initialized), drv the ports   *)
(* that have a driver installed and task the state of the task created for *)
(* uart_rx_task.  A config argument is NullUartConfig or a UartConfig.     *)
(* The outcomes of the driver and kernel calls are arguments.  A result is *)
(* the esp_err_t with the statics, the drivers and the task afterwards.    *)
(***************************************************************************)
NullUartConfig == [is_null |-> TRUE, port |-> "UART_NUM_1", protocol_ctx |-> NULL]

UartConfig(port, pctx) == [is_null |-> FALSE, port |-> port, protocol_ctx |-> pctx]

UartResult(err, u, drv, task) == [err |-> err, u |-> u, drv |-> drv, task |-> task]

\* el_uart_init up to xTaskCreate.  install_ret, param_ret and pin_ret are the
\* returns of uart_driver_install, uart_param_config and uart_set_pin,
\* task_ret that of xTaskCreate.  The return of the uart_driver_delete calls
\* on the failure paths is not looked at by the code; the driver is taken to
\* be removed.  The err "none" says the call has not returned: the task is
\* created and runnable, and initialized is still to be set.
el_uart_init(u, drv, task, config, install_ret, param_ret, pin_ret, task_ret) ==
    IF config.is_null THEN UartResult("ESP_ERR_INVALID_ARG", u, drv, task)
    ELSE IF u.initialized THEN UartResult("ESP_ERR_INVALID_STATE", u, drv, task)
    ELSE LET u1 == [u EXCEPT !.uart_port = config.port,
                             !.protocol_ctx = config.protocol_ctx]
         IN  IF install_ret # "ESP_OK"
             THEN UartResult(install_ret, u1, drv, task)
             ELSE IF param_ret # "ESP_OK"
             THEN UartResult(param_ret, u1, drv \ {u1.uart_port}, task)
             ELSE IF pin_ret # "ESP_OK"
             THEN UartResult(pin_ret, u1, drv \ {u1.uart_port}, task)
             ELSE IF task_ret # "pdPASS"
             THEN UartResult("ESP_FAIL", u1, drv \ {u1.uart_port}, task)
             ELSE UartResult("none",
                             [u1 EXCEPT !.rx_task_handle = "el_uart_rx"],
                             drv \cup {u1.uart_port}, "created")

\* el_uart_init after xTaskCreate: initialized = true, return ESP_OK
el_uart_init_return(u, drv, task) ==
    UartResult("ESP_OK", [u EXCEPT !.initialized = TRUE], drv, task)

\* vTaskDelete(rx_task_handle) in el_uart_deinit.  The handle of a task that
\* has deleted itself is dangling: the call is undefined, and stale is the
\* outcome the build gives ("ignored" or "fault").
DeleteRxTask(task, stale) ==
    IF task \in {"created", "running"} THEN "none"
    ELSE IF task = "exited" THEN (IF stale = "fault" THEN "fault" ELSE "none")
    ELSE task

\* delete_ret is the return of uart_driver_delete
el_uart_deinit(u, drv, task, delete_ret, stale) ==
    IF ~u.initialized THEN UartResult("ESP_ERR_INVALID_STATE", u, drv, task)
    ELSE LET task1 == IF u.rx_task_handle # NULL THEN DeleteRxTask(task, stale)
                                                 ELSE task
             u1    == [u EXCEPT !.rx_task_handle = NULL]
         IN  IF delete_ret # "ESP_OK"
             THEN UartResult(delete_ret, u1, drv, task1)
             ELSE UartResult("ESP_OK",
                             [u1 EXCEPT !.protocol_ctx = NULL,
                                        !.initialized = FALSE],
                             drv \ {u.uart_port}, task1)

\* uart_rx_task up to its loop: the task deletes itself when malloc fails
uart_rx_task_start(data) == IF data = NULL THEN "exited" ELSE "running"

\* uart_rx_task, one turn of the loop: read is the bytes uart_read_bytes
\* returned (none on a timeout), pctx the static protocol_ctx
uart_rx_task_loop(pctx, c, read) ==
    IF Len(read) > 0 /\ pctx # NULL
    THEN el_process_bytes(c, read, Len(read))
    ELSE Step(c, <<>>)

\* ble_gap_event, BLE_GAP_EVENT_CONNECT: the new value of conn_handle
OnGapConnect(status, handle) ==
    IF status = 0 THEN handle ELSE BLE_HS_CONN_HANDLE_NONE

\* Mutant: the parser is not reset on disconnect
OnGapDisconnect_noreset(pctx, c) == c

\* ble_gap_event, BLE_GAP_EVENT_DISCONNECT: the parser is reset when a
\* protocol context was configured (pctx is the static protocol_ctx)
OnGapDisconnect(pctx, c) ==
    IF pctx # NULL THEN el_reset(c) ELSE c

\* ble_gap_event: the application callbacks (on_connect, on_disconnect of the
\* el_ble_config_t) invoked while handling an event of the given type.  The
\* handler logs, updates the statics and advertises; it invokes none.
GapEventCallbacks(type) == <<>>

(***************************************************************************)
(* Bounds and input sets of the model                                      *)
(***************************************************************************)
\* longest payload enumerated byte by byte
MaxLen == 2
\* driver operations (single bytes, resets, link events) in a stream run
MaxOps == 4
\* el_send calls in a stream run, made back to back
MaxSends == 1
\* longest run of noise put before a looped-back frame
MaxNoise == 2
\* longest GATT write that is not the whole rest of a looped-back frame
MaxChunk == 3
\* events the host task handles while one el_send call is inside send_bytes
MaxInSend == 1

\* message ids sent in a frame run: a system id, the telemetry id of the
\* documented scenarios, the value of the sync marker
Ids == {0, 16, EL_SYNC_BYTE}
\* message ids sent in a stream run, and with the longest payloads
FewIds == {16}
\* payload bytes
PayloadBytes == {0, EL_SYNC_BYTE}
\* bytes fed one at a time: zero, the sync marker, the smallest oversized length
RawBytes == {0, EL_SYNC_BYTE, EL_MAX_PAYLOAD + 1}
\* bytes of a noise run: anything but the sync marker
NoiseBytes == {0, EL_MAX_PAYLOAD + 1}

SeqsUpTo(S, n) == UNION {[1..k -> S] : k \in 0..n}

\* A payload of n bytes that differ from their neighbours
Pattern(n) == [i \in 1..n |-> (i * 7) % 256]

\* The one-byte payload whose frame under message id 16 has the checksum 0xA5
SyncCrcPayload == <<6>>

\* Short payload buffers handed to el_send in a frame run: every sequence of
\* up to MaxLen payload bytes, the payload of the documented scenario and the
\* one that gives the checksum 0xA5
ShortPayloads == SeqsUpTo(PayloadBytes, MaxLen) \cup {<<1, 2, 3>>, SyncCrcPayload}

\* Long payload buffers: one of the maximum size, one a byte too long
LongPayloads == {Pattern(EL_MAX_PAYLOAD), Pattern(EL_MAX_PAYLOAD + 1)}

\* A payload as long as the value of the sync marker, every byte the marker
SyncPayload == [i \in 1..EL_SYNC_BYTE |-> EL_SYNC_BYTE]

\* Payload buffers handed to el_send in a stream run
StreamPayloads == {<<>>, <<0>>, Pattern(EL_MAX_PAYLOAD + 1)}

\* Payload buffers handed to el_send on an aged context
AgedPayloads == {<<>>, <<0>>, Pattern(EL_MAX_PAYLOAD + 1)}

\* Lengths passed with a null payload
NullLens == {0, 1, 255}

\* Outcomes of the BLE stack calls made by the sink: <<mbuf, rc>>
StackOutcomes == {<<"om", 0>>, <<NULL, 0>>, <<"om", 1>>}

\* Context memory before el_init: zeroed static storage, or whatever an
\* automatic variable holds
RawContexts ==
    {[InitCtx EXCEPT !.on_message = NULL, !.send_bytes = NULL],
     [on_message |-> NULL, send_bytes |-> "send_bytes",
      state |-> EL_STATE_GOT_LEN, msg_id |-> 7, payload_len |-> 9,
      payload_idx |-> 3, rx_buffer |-> [ZeroBuffer EXCEPT ![0] = 255],
      running_crc |-> 90, rx_frames |-> U32(5), rx_errors |-> U32(6),
      tx_frames |-> U32(7)]}

\* A context in use for so long that each counter holds its largest value:
\* initialised, its parser in Idle after the latest frame
AgedCtx ==
    [InitCtx EXCEPT !.rx_frames = UINT32_MAX, !.rx_errors = UINT32_MAX,
                    !.tx_frames = UINT32_MAX]

\* Arguments of el_init: <<context pointer, config>>
InitArgs ==
    {<<"ctx", Config("on_message", "send_bytes")>>,
     <<"ctx", Config(NULL, "send_bytes")>>,
     <<"ctx", Config("on_message", NULL)>>,
     <<"ctx", NullConfig>>,
     <<NULL, Config("on_message", "send_bytes")>>}

\* Configs passed to el_ble_init in a stream run
StreamBleConfigs ==
    {BleConfig("Etherlink", "ctx", "on_connect", "on_disconnect"),
     BleConfig("Etherlink", NULL, "on_connect", "on_disconnect"),
     BleConfig("Etherlink", "ctx", NULL, NULL),
     BleConfig(NULL, "ctx", NULL, NULL),
     NullBleConfig}

\* Configs passed to el_ble_init in a frame run
FrameBleConfigs == {BleConfig("Etherlink", "ctx", "on_connect", "on_disconnect")}

\* Outcomes of the BLE stack calls made by el_ble_init:
\* <<nvs_flash_init, nvs_flash_erase, nvs_flash_init after the erase,
\*   nimble_port_init, ble_gatts_count_cfg, ble_gatts_add_svcs>>
BleInitOutcomes ==
    {<<"ESP_OK", "ESP_OK", "ESP_OK", "ESP_OK", 0, 0>>,
     <<"ESP_OK", "ESP_OK", "ESP_OK", "ESP_FAIL", 0, 0>>,
     <<"ESP_OK", "ESP_OK", "ESP_OK", "ESP_OK", 1, 0>>,
     <<"ESP_OK", "ESP_OK", "ESP_OK", "ESP_OK", 0, 1>>,
     <<"ESP_ERR_NVS_NO_FREE_PAGES", "ESP_OK", "ESP_OK", "ESP_OK", 0, 0>>,
     <<"ESP_ERR_NVS_NEW_VERSION_FOUND", "ESP_OK", "ESP_OK", "ESP_OK", 0, 0>>,
     <<"ESP_FAIL", "ESP_OK", "ESP_OK", "ESP_OK", 0, 0>>,
     <<"ESP_ERR_NVS_NO_FREE_PAGES", "ESP_FAIL", "ESP_OK", "ESP_OK", 0, 0>>,
     <<"ESP_ERR_NVS_NEW_VERSION_FOUND", "ESP_OK", "ESP_ERR_NVS_NO_FREE_PAGES",
       "ESP_OK", 0, 0>>}

\* Objects sent with EL_SEND, by size: the documented telemetry struct, the
\* largest payload, one byte more, and sizes that do not fit the uint8_t len
TypedSizes == {8, EL_MAX_PAYLOAD, EL_MAX_PAYLOAD + 1, 256, 300}

(***************************************************************************)
(* State                                                                   *)
(***************************************************************************)
VARIABLES
    ctx,          \* the el_ctx_t
    calls,        \* on_message invocations of the observed run so far
                  \* (argument records)
    sink,         \* send_bytes invocations of the observed run so far (the
                  \* bytes handed over)
    air,          \* notifications queued by the BLE sink
    conn_handle,  \* etherlink_ble.c: conn_handle
    protocol_ctx, \* etherlink_ble.c: protocol_ctx (NULL or "ctx")
    wire,         \* bytes of a looped-back frame not yet fed to the parser
    since_sync,   \* bytes consumed after the latest sync byte accepted in Idle
    prev,         \* ctx and calls before the latest step; sink and air
                  \* before the latest step or, once el_send has returned,
                  \* before that call (only its send_bytes changes them)
    last,         \* the latest operation and its arguments
    scn,          \* the looped-back frame being fed and the state it met, until
                  \* the driver does anything but feed it
    mode,         \* "stream": bytes, resets, link events; "frame": one frame;
                  \* "aged": one frame, on a context long in use
    nops,         \* driver operations so far
    nsends,       \* el_send calls so far
    phase,        \* "boot": nothing initialised; "core": el_init succeeded;
                  \* "run": el_ble_init succeeded, the host task runs
                  \* "abort": an ESP_ERROR_CHECK of el_ble_init failed, the
                  \* program has aborted and runs no further
    ble_config,   \* the config el_ble_init was last called with
    link_calls,   \* on_connect / on_disconnect invocations so far
    cut,          \* the latest el_reset or disconnect and the state it met,
                  \* until the driver feeds a byte that is not of a
                  \* looped-back frame
    app,          \* the application task inside an el_send or el_uart_init
                  \* call: its position, arguments and locals
    rx,           \* the receive task inside an el_process_bytes call: its
                  \* data, loop index and position in el_process_byte
    run0,         \* the context the observed run started from: the one
                  \* el_init leaves, an aged one, or the one both tasks
                  \* started from
    uart_port,    \* etherlink_uart.c: uart_port
    uart_protocol_ctx, \* etherlink_uart.c: protocol_ctx (NULL or "ctx")
    rx_task_handle,    \* etherlink_uart.c: rx_task_handle (NULL or a task id)
    initialized,  \* etherlink_uart.c: initialized
    rx_task,      \* the task created for uart_rx_task: "none", "created" (not
                  \* yet run), "running" (in its loop), "exited" (deleted
                  \* itself), "fault" (the system has faulted)
    driver        \* the UART ports that have a driver installed

\* The variables of the two tasks sharing a context
race_vars == << app, rx, run0 >>

\* The variables of the UART transport
uart_vars == << uart_port, uart_protocol_ctx, rx_task_handle, initialized,
                rx_task, driver >>

\* The variables of the protocol core under the BLE transport
core_vars == << air, conn_handle, protocol_ctx, wire, since_sync, scn, mode,
                nops, nsends, phase, ble_config, link_calls, cut >>

vars == << ctx, calls, sink, air, conn_handle, protocol_ctx, wire, since_sync,
           prev, last, scn, mode, nops, nsends, phase, ble_config, link_calls,
           cut, race_vars, uart_vars >>

\* The application task is in no call
NoApp == [pc |-> "none", msg_id |-> 0, payload |-> NullPtr,
          len |-> 0, frame |-> <<>>, tx |-> U32(0), ret |-> FALSE, mid |-> FALSE,
          op |-> "none", sink0 |-> <<>>, air0 |-> <<>>, host |-> 0,
          looped |-> FALSE]

\* The application task is between two calls
BetweenCalls == app.pc = "none"

\* The host task handles an event, the application task between two calls
\* or inside the send_bytes call of el_send; host counts the latter events
HostEvent ==
    /\ app.pc = "sent" => app.host < MaxInSend
    /\ app' = IF app.pc = "sent" THEN [app EXCEPT !.host = @ + 1] ELSE app
    /\ UNCHANGED << rx, run0, uart_vars >>

\* No el_process_bytes call in progress
NoRx == [pc |-> "none", data |-> <<>>, i |-> 0, r |-> Step(InitCtx, <<>>)]

\* The statics of etherlink_uart.c as the program starts
UartBoot ==
    /\ uart_port = "UART_NUM_1"
    /\ uart_protocol_ctx = NULL
    /\ rx_task_handle = NULL
    /\ initialized = FALSE
    /\ rx_task = "none"
    /\ driver = {}

Snapshot == [ctx |-> ctx, calls |-> calls, sink |-> sink, air |-> air]

\* chunk: the length of the el_process_bytes call that consumed the latest
\* byte, 0 for a direct el_process_byte call; ctxp, config: the arguments of
\* an el_init call; err: the esp_err_t a transport call returned; host: the
\* events the host task handled during an el_send call; looped: the frame of
\* the call came back before the call returned
Op(op) == [op |-> op, byte |-> 0, msg_id |-> 0, payload |-> NullPtr, len |-> 0,
           ret |-> FALSE, chunk |-> 0, ctxp |-> "ctx", config |-> NullConfig,
           err |-> "none", host |-> 0, looped |-> FALSE]

\* fed: bytes of a looped-back frame have been fed since
NoCut == [active |-> FALSE, op |-> "none", state |-> EL_STATE_IDLE,
          since_sync |-> <<>>, rx_frames |-> U32(0), rx_errors |-> U32(0),
          calls |-> <<>>,
          fed |-> FALSE]

Cut(op) == [active |-> TRUE, op |-> op, state |-> ctx.state,
            since_sync |-> since_sync, rx_frames |-> ctx.rx_frames,
            rx_errors |-> ctx.rx_errors, calls |-> calls, fed |-> FALSE]

\* cut once a byte of the wire has been fed
CutFed == IF scn.active /\ cut.active THEN [cut EXCEPT !.fed = TRUE] ELSE NoCut

\* cut once a frame is looped back: only the first frame after an el_reset
\* or a disconnect is the one fed right after it
CutLooped == IF cut.fed THEN NoCut ELSE cut

NoScn == [active |-> FALSE, msg_id |-> 0, payload |-> <<>>,
          noise |-> <<>>, pos |-> 0, bit |-> 0, frame |-> <<>>,
          state0 |-> EL_STATE_IDLE, payload_len0 |-> 0,
          rx_frames0 |-> U32(0), rx_errors0 |-> U32(0), calls0 |-> <<>>,
          whole |-> Step(InitCtx, <<>>)]

\* A run either drives the parser byte by byte or feeds it one encoded
\* frame, the latter on a fresh context or on an aged one
Modes == {"stream", "frame", "aged"}

\* The program starts, or is observed from the moment its context, after
\* 4294967295 frames received, rejected and sent, is AgedCtx
Init ==
    /\ mode \in Modes
    /\ IF mode = "aged"
       THEN /\ ctx = AgedCtx
            /\ run0 = AgedCtx
            /\ phase = "run"
            /\ ble_config \in FrameBleConfigs
            /\ protocol_ctx = ble_config.protocol_ctx
       ELSE /\ ctx \in RawContexts
            /\ run0 = InitCtx
            /\ phase = "boot"
            /\ ble_config = NullBleConfig
            /\ protocol_ctx = NULL
    /\ link_calls = <<>>
    /\ cut = NoCut
    /\ calls = <<>>
    /\ sink = <<>>
    /\ air = <<>>
    /\ conn_handle = BLE_HS_CONN_HANDLE_NONE
    /\ wire = <<>>
    /\ since_sync = <<>>
    /\ prev = [ctx |-> ctx, calls |-> <<>>, sink |-> <<>>, air |-> <<>>]
    /\ last = Op("boot")
    /\ scn = NoScn
    /\ nops = 0
    /\ nsends = 0
    /\ app = NoApp
    /\ rx = NoRx
    /\ UartBoot

(***************************************************************************)
(* Operations                                                              *)
(***************************************************************************)
\* el_init on the context, before anything else uses it
ElInit(ctxp, config) ==
    /\ BetweenCalls
    /\ phase = "boot"
    /\ LET r == el_init(ctxp, ctx, config)
       IN  /\ ctx' = r.ctx
           /\ last' = [Op("el_init") EXCEPT !.ret = r.ret, !.ctxp = ctxp,
                                            !.config = config]
           /\ phase' = IF r.ret THEN "core" ELSE "boot"
    /\ prev' = Snapshot
    /\ UNCHANGED << calls, sink, air, conn_handle, protocol_ctx, wire,
                    since_sync, scn, mode, nops, nsends, ble_config,
                    link_calls, cut >>
    /\ UNCHANGED << race_vars, uart_vars >>

\* el_ble_init once the protocol context is initialised
BleInit(config, nvs_ret, erase_ret, nvs_ret2, nimble_ret, count_rc, add_rc) ==
    /\ BetweenCalls
    /\ phase = "core"
    /\ LET r == el_ble_init(protocol_ctx, config, nvs_ret, erase_ret, nvs_ret2,
                            nimble_ret, count_rc, add_rc)
       IN  /\ protocol_ctx' = r.protocol_ctx
           /\ last' = [Op("el_ble_init") EXCEPT !.ret = (r.err = "ESP_OK"),
                                                !.err = r.err]
           /\ phase' = IF r.aborted THEN "abort"
                       ELSE IF r.started THEN "run" ELSE "core"
    /\ ble_config' = config
    /\ prev' = Snapshot
    /\ UNCHANGED << ctx, calls, sink, air, conn_handle, wire, since_sync, scn,
                    mode, nops, nsends, link_calls, cut >>
    /\ UNCHANGED << race_vars, uart_vars >>

\* The bytes consumed after the latest sync byte accepted in Idle, once a
\* parser in state st that had consumed ss since then has consumed b
SinceSync(st, ss, b) ==
    IF st = EL_STATE_IDLE
    THEN (IF b = EL_SYNC_BYTE THEN <<>> ELSE ss)
    ELSE Append(ss, b)

\* One el_process_byte call on byte b
Consume(b) ==
    LET r == el_process_byte(ctx, b)
    IN  /\ ctx' = r.ctx
        /\ calls' = calls \o r.cb
        /\ since_sync' = SinceSync(ctx.state, since_sync, b)
        /\ prev' = Snapshot
        /\ last' = [Op("byte") EXCEPT !.byte = b]
        /\ UNCHANGED << sink, air, conn_handle, protocol_ctx, mode, nsends,
                        phase, ble_config, link_calls >>

\* The driver feeds one byte of its own choice
FeedByte(b) ==
    /\ BetweenCalls
    /\ phase = "run"
    /\ mode = "stream"
    /\ wire = <<>>
    /\ nops < MaxOps
    /\ Consume(b)
    /\ nops' = nops + 1
    /\ scn' = NoScn
    /\ cut' = NoCut
    /\ UNCHANGED wire
    /\ UNCHANGED << race_vars, uart_vars >>

\* The driver feeds the next byte of the looped-back frame
FeedWire ==
    /\ BetweenCalls
    /\ wire # <<>>
    /\ Consume(Head(wire))
    /\ wire' = Tail(wire)
    /\ cut' = CutFed
    /\ UNCHANGED << nops, scn >>
    /\ UNCHANGED << race_vars, uart_vars >>

\* since_sync once a parser with context c, which had consumed ss since the
\* latest accepted sync byte, has consumed data[i+1..len]
RECURSIVE Trail(_, _, _, _, _)
Trail(c, ss, data, i, len) ==
    IF i >= len THEN ss
    ELSE IF len - i = 1 THEN SinceSync(c.state, ss, data[i + 1])
    ELSE LET mid  == i + ((len - i) \div 2)
             left == Trail(c, ss, data, i, mid)
             cm   == el_process_bytes_loop(Step(c, <<>>), data, i, mid).ctx
         IN  IF Len(left) >= 0 THEN Trail(cm, left, data, mid, len) ELSE left

\* The client writes the next k bytes of the looped-back frame to the RX
\* characteristic in one GATT write; rc is the outcome of ble_hs_mbuf_to_flat
\* (a failure is tried on a write of all the remaining bytes).
\* prev and last describe the last el_process_byte call made for the write.
BleWrite(k, rc) ==
    /\ wire # <<>>
    /\ conn_handle # BLE_HS_CONN_HANDLE_NONE
    /\ k \in 1..Len(wire)
    /\ rc # 0 => k = Len(wire)
    /\ LET om == SubSeq(wire, 1, k)
           r == nus_chr_access(protocol_ctx, ctx, BLE_GATT_ACCESS_OP_WRITE_CHR, om, rc)
           b == nus_chr_access(protocol_ctx, ctx, BLE_GATT_ACCESS_OP_WRITE_CHR,
                               SubSeq(om, 1, k - 1), rc)
           fed == rc = 0 /\ protocol_ctx # NULL
       IN  /\ ctx' = r.ctx
           /\ calls' = calls \o r.cb
           /\ since_sync' = IF fed THEN Trail(ctx, since_sync, om, 0, k)
                                   ELSE since_sync
           /\ prev' = IF fed THEN [ctx |-> b.ctx, calls |-> calls \o b.cb,
                                   sink |-> sink, air |-> air]
                             ELSE Snapshot
           /\ last' = IF fed THEN [Op("byte") EXCEPT !.byte = om[k], !.chunk = k]
                             ELSE Op("dropped")
           /\ scn' = IF fed THEN scn ELSE NoScn
           /\ cut' = IF fed THEN CutFed ELSE NoCut
    /\ wire' = SubSeq(wire, k + 1, Len(wire))
    /\ UNCHANGED << sink, air, conn_handle, protocol_ctx, mode, nops, nsends,
                    phase, ble_config, link_calls >>
    /\ HostEvent

Reset ==
    /\ BetweenCalls
    /\ phase = "run"
    /\ mode = "stream"
    /\ nops < MaxOps
    /\ ctx' = el_reset(ctx)
    /\ prev' = Snapshot
    /\ last' = Op("reset")
    /\ scn' = NoScn
    /\ cut' = Cut("reset")
    /\ nops' = nops + 1
    /\ UNCHANGED << calls, sink, air, conn_handle, protocol_ctx, wire,
                    since_sync, mode, nsends, phase, ble_config, link_calls >>
    /\ UNCHANGED << race_vars, uart_vars >>

GapConnect(status) ==
    /\ phase = "run"
    /\ mode = "stream"
    /\ nops < MaxOps
    /\ wire = <<>>
    /\ conn_handle = BLE_HS_CONN_HANDLE_NONE
    /\ conn_handle' = OnGapConnect(status, "conn1")
    /\ prev' = Snapshot
    /\ last' = [Op("connect") EXCEPT !.ret = (status = 0)]
    /\ link_calls' = link_calls \o GapEventCallbacks("BLE_GAP_EVENT_CONNECT")
    /\ nops' = nops + 1
    /\ UNCHANGED << ctx, calls, sink, air, protocol_ctx, wire, since_sync, scn,
                    mode, nsends, phase, ble_config, cut >>
    /\ HostEvent

GapDisconnect ==
    /\ phase = "run"
    /\ mode = "stream"
    /\ nops < MaxOps
    /\ conn_handle # BLE_HS_CONN_HANDLE_NONE
    /\ conn_handle' = BLE_HS_CONN_HANDLE_NONE
    /\ ctx' = OnGapDisconnect(protocol_ctx, ctx)
    /\ prev' = Snapshot
    /\ last' = Op("disconnect")
    /\ link_calls' = link_calls \o GapEventCallbacks("BLE_GAP_EVENT_DISCONNECT")
    /\ scn' = NoScn
    /\ cut' = Cut("disconnect")
    /\ nops' = nops + 1
    /\ UNCHANGED << calls, sink, air, protocol_ctx, wire, since_sync, mode,
                    nsends, phase, ble_config >>
    /\ HostEvent

\* The application task inside el_send, send_bytes having returned; op, msg_id,
\* payload and len describe the call, sink0 and air0 are sink and air before it
InSend(op, msg_id, payload, len) ==
    [NoApp EXCEPT !.pc = "sent", !.op = op, !.msg_id = msg_id,
                  !.payload = payload, !.len = len, !.sink0 = sink, !.air0 = air]

\* el_send with the BLE sink as send_bytes, up to the return of send_bytes
\* (a refused call returns); mbuf and rc are the outcomes of the BLE stack
\* calls made by the sink.  A frame run sends one frame; in a stream run the
\* sends after the first follow it back to back.
Send(msg_id, payload, len, mbuf, rc) ==
    /\ BetweenCalls
    /\ phase = "run"
    /\ wire = <<>>
    /\ nsends < MaxSends
    /\ mode # "stream" => nsends = 0
    /\ nsends > 0 => last.op = "send" /\ last.host = 0
    /\ LET s == el_send_transmit(ctx, msg_id, payload, len)
       IN  /\ ctx' = s.ctx
           /\ sink' = sink \o s.sink
           /\ air' = IF s.sink = <<>> THEN air
                     ELSE air \o el_ble_send_raw(conn_handle, s.sink[1], mbuf, rc)
           /\ last' = [Op(IF s.ret THEN "send_bytes" ELSE "send")
                          EXCEPT !.msg_id = msg_id, !.payload = payload,
                                 !.len = len, !.ret = FALSE]
           /\ app' = IF s.ret THEN InSend("send", msg_id, payload, len) ELSE NoApp
    /\ prev' = Snapshot
    /\ nsends' = nsends + 1
    /\ scn' = NoScn
    /\ UNCHANGED << calls, conn_handle, protocol_ctx, wire, since_sync, mode,
                    nops, phase, ble_config, link_calls, cut >>
    /\ UNCHANGED << rx, run0, uart_vars >>

\* EL_SEND on an object of the given size, in a frame run, up to the return
\* of send_bytes (a refused call returns)
SendTyped(msg_id, size, mbuf, rc) ==
    /\ BetweenCalls
    /\ phase = "run"
    /\ mode = "frame"
    /\ wire = <<>>
    /\ nsends = 0
    /\ LET obj == Pattern(size)
           s == el_send_transmit(ctx, msg_id, Ptr(obj), EL_SEND_len(obj))
       IN  /\ ctx' = s.ctx
           /\ sink' = sink \o s.sink
           /\ air' = IF s.sink = <<>> THEN air
                     ELSE air \o el_ble_send_raw(conn_handle, s.sink[1], mbuf, rc)
           /\ last' = [Op(IF s.ret THEN "send_bytes" ELSE "EL_SEND")
                          EXCEPT !.msg_id = msg_id, !.payload = Ptr(obj),
                                 !.len = size, !.ret = FALSE]
           /\ app' = IF s.ret THEN InSend("EL_SEND", msg_id, Ptr(obj), size)
                              ELSE NoApp
    /\ prev' = Snapshot
    /\ nsends' = nsends + 1
    /\ scn' = NoScn
    /\ UNCHANGED << calls, conn_handle, protocol_ctx, wire, since_sync, mode,
                    nops, phase, ble_config, link_calls, cut >>
    /\ UNCHANGED << rx, run0, uart_vars >>

\* el_send after send_bytes has returned: the frame is counted and the call
\* returns true.  The context that feeding a looped-back frame at once would
\* give counts the frame too.
SendReturn ==
    /\ app.pc = "sent"
    /\ LET r == el_send_return(ctx)
       IN  /\ ctx' = r.ctx
           /\ last' = [Op(app.op) EXCEPT !.msg_id = app.msg_id,
                                         !.payload = app.payload,
                                         !.len = app.len, !.ret = r.ret,
                                         !.host = app.host,
                                         !.looped = app.looped]
    /\ scn' = IF scn.active
              THEN [scn EXCEPT !.whole.ctx = el_send_return(@).ctx]
              ELSE scn
    /\ prev' = [Snapshot EXCEPT !.sink = app.sink0, !.air = app.air0]
    /\ app' = NoApp
    /\ UNCHANGED << calls, sink, air, conn_handle, protocol_ctx, wire,
                    since_sync, mode, nops, nsends, phase, ble_config,
                    link_calls, cut >>
    /\ UNCHANGED << rx, run0, uart_vars >>

\* The message ids, payload buffers and lengths el_send is called with
SendArgs ==
    IF mode = "frame"
    THEN {<<id, Ptr(p), Len(p)>> : id \in Ids, p \in ShortPayloads}
           \cup {<<id, Ptr(p), Len(p)>> : id \in FewIds, p \in LongPayloads}
           \cup {<<id, NullPtr, n>> : id \in FewIds, n \in NullLens}
           \cup {<<EL_SYNC_BYTE, Ptr(SyncPayload), Len(SyncPayload)>>}
    ELSE IF mode = "aged"
    THEN {<<id, Ptr(p), Len(p)>> : id \in FewIds, p \in AgedPayloads}
    ELSE {<<id, Ptr(p), Len(p)>> : id \in FewIds, p \in StreamPayloads}

\* b with bit number bit inverted
FlipBit(b, bit) ==
    IF (b \div (2 ^ bit)) % 2 = 1 THEN b - (2 ^ bit) ELSE b + (2 ^ bit)

\* Frame positions whose bits are inverted: message id, length, the first
\* MaxLen payload bytes, the last payload byte and the checksum
FlipPositions(frame) ==
    {k \in 2..Len(frame) : k <= 3 + MaxLen \/ k >= Len(frame) - 1}

\* The latest el_send handed a frame to the sink and nothing was fed since;
\* the call has returned or, in a stream run, is still to count the frame
CanLoop ==
    /\ wire = <<>>
    /\ \/ last.op = "send" /\ last.ret /\ ~last.looped
       \/ last.op = "send_bytes" /\ app.op = "send" /\ mode = "stream"
    /\ sink # <<>>

Scenario(noise, pos, bit) ==
    [active |-> TRUE,
     msg_id |-> last.msg_id,
     payload |-> SubSeq(last.payload.bytes, 1, last.len),
     noise |-> noise, pos |-> pos, bit |-> bit, frame |-> sink[Len(sink)],
     state0 |-> ctx.state, payload_len0 |-> ctx.payload_len,
     rx_frames0 |-> ctx.rx_frames, rx_errors0 |-> ctx.rx_errors,
     calls0 |-> calls,
     whole |-> LET w == noise \o (IF pos = 0 THEN sink[Len(sink)]
                                  ELSE [sink[Len(sink)] EXCEPT ![pos] = FlipBit(@, bit)])
               IN  el_process_bytes(ctx, w, Len(w))]

\* The bytes the latest el_send handed to the sink come back, in a frame run
\* or on an aged context after a run of noise (in a stream run the driver feeds noise byte by byte)
Loopback(noise) ==
    /\ CanLoop
    /\ noise # <<>> => mode # "stream"
    /\ wire' = noise \o sink[Len(sink)]
    /\ scn' = Scenario(noise, 0, 0)
    /\ cut' = CutLooped
    /\ UNCHANGED << ctx, calls, sink, air, conn_handle, protocol_ctx, since_sync,
                    prev, last, mode, nops, nsends, phase, ble_config,
                    link_calls >>
    /\ app' = IF app.pc = "sent" THEN [app EXCEPT !.looped = TRUE] ELSE app
    /\ UNCHANGED << rx, run0, uart_vars >>

\* The bytes the latest el_send handed to the sink come back with bit number
\* bit of the byte at position pos inverted
LoopbackFlipped(pos, bit) ==
    /\ CanLoop
    /\ mode # "stream"
    /\ wire' = [sink[Len(sink)] EXCEPT ![pos] = FlipBit(@, bit)]
    /\ scn' = Scenario(<<>>, pos, bit)
    /\ cut' = CutLooped
    /\ UNCHANGED << ctx, calls, sink, air, conn_handle, protocol_ctx, since_sync,
                    prev, last, mode, nops, nsends, phase, ble_config,
                    link_calls >>
    /\ UNCHANGED << race_vars, uart_vars >>

Next ==
    \/ \E a \in InitArgs : ElInit(a[1], a[2])
    \/ \E c \in (IF mode = "stream" THEN StreamBleConfigs ELSE FrameBleConfigs),
          o \in BleInitOutcomes :
             BleInit(c, o[1], o[2], o[3], o[4], o[5], o[6])
    \/ \E b \in RawBytes : FeedByte(b)
    \/ FeedWire
    \/ \E k \in {j \in 1..Len(wire) : j <= MaxChunk \/ j = Len(wire)}, rc \in {0, 1} :
          BleWrite(k, rc)
    \/ \E size \in TypedSizes, o \in StackOutcomes : SendTyped(16, size, o[1], o[2])
    \/ Reset
    \/ \E status \in {0, 1} : GapConnect(status)
    \/ GapDisconnect
    \/ \E a \in SendArgs, o \in StackOutcomes : Send(a[1], a[2], a[3], o[1], o[2])
    \/ SendReturn
    \/ \E noise \in SeqsUpTo(NoiseBytes, MaxNoise) : Loopback(noise)
    \/ \E pos \in (IF CanLoop THEN FlipPositions(sink[Len(sink)]) ELSE {}), bit \in 0..7 :
          LoopbackFlipped(pos, bit)

Spec == Init /\ [][Next]_vars

(***************************************************************************)
(* Two tasks on one context: the application task makes one el_send call   *)
(* while the receive task (uart_rx_task) makes one el_process_bytes call   *)
(* on the bytes it has read.  The steps of el_send are its argument checks *)
(* and frame construction (which touch locals only), the send_bytes call,  *)
(* and the load and the store of tx_frames++.  Each el_process_byte call   *)
(* of the loop is two steps: the reads of the context, then the writes of  *)
(* the fields it assigns and the callback.                                 *)
(***************************************************************************)
\* Byte streams consumed before the two calls start: none, a frame cut after
\* its id, a frame cut inside its payload, a whole frame
RacePrefixes ==
    {<<>>, <<EL_SYNC_BYTE, 16>>, <<EL_SYNC_BYTE, 16, 2, 7>>,
     <<EL_SYNC_BYTE, 16, 0, 87>>}

\* The contexts the two calls start from: initialised ones that have consumed
\* a prefix, one long in use, and zeroed static storage that el_init never
\* saw
RaceContexts ==
    {el_process_bytes(InitCtx, pre, Len(pre)).ctx : pre \in RacePrefixes}
      \cup {AgedCtx}
      \cup {[InitCtx EXCEPT !.on_message = NULL, !.send_bytes = NULL]}

\* Arguments of the el_send call
RaceSendArgs ==
    {<<16, Ptr(p), Len(p)>> : p \in SeqsUpTo(PayloadBytes, MaxLen)}
      \cup {<<16, NullPtr, 1>>,
            <<16, Ptr(Pattern(EL_MAX_PAYLOAD + 1)), EL_MAX_PAYLOAD + 1>>}

\* Frames on the receive line: an empty telemetry frame, one with a payload
\* byte, one with a wrong checksum
RaceFrames ==
    {<<EL_SYNC_BYTE, 16, 0, 87>>, <<EL_SYNC_BYTE, 16, 1, 6, EL_SYNC_BYTE>>,
     <<EL_SYNC_BYTE, 16, 1, 6, 0>>}

\* The bytes one uart_read_bytes call returned: a frame after a run of noise
RaceChunks ==
    {[i \in 1..k |-> EL_MAX_PAYLOAD + 1] \o f : k \in 0..MaxNoise, f \in RaceFrames}

RaceInit ==
    /\ ctx \in RaceContexts
    /\ run0 = ctx
    /\ \E a \in RaceSendArgs :
          app = [NoApp EXCEPT !.pc = "call", !.msg_id = a[1], !.payload = a[2],
                              !.len = a[3]]
    /\ \E d \in RaceChunks : rx = [NoRx EXCEPT !.pc = "loop", !.data = d]
    /\ calls = <<>>
    /\ sink = <<>>
    /\ prev = [ctx |-> ctx, calls |-> <<>>, sink |-> <<>>, air |-> <<>>]
    /\ last = Op("start")
    /\ air = <<>>
    /\ conn_handle = BLE_HS_CONN_HANDLE_NONE
    /\ protocol_ctx = NULL
    /\ wire = <<>>
    /\ since_sync = <<>>
    /\ scn = NoScn
    /\ mode = "stream"
    /\ nops = 0
    /\ nsends = 0
    /\ phase = "run"
    /\ ble_config = NullBleConfig
    /\ link_calls = <<>>
    /\ cut = NoCut
    /\ UartBoot

\* el_send up to the call of send_bytes: the checks of the context and the
\* arguments, and the frame built in the local frame[]
AppCheck ==
    /\ app.pc = "call"
    /\ LET s == el_send_transmit(ctx, app.msg_id, app.payload, app.len)
       IN  app' = IF s.ret THEN [app EXCEPT !.pc = "built", !.frame = s.sink[1]]
                           ELSE [app EXCEPT !.pc = "done", !.ret = FALSE]
    /\ last' = Op("app_check")
    /\ prev' = Snapshot
    /\ UNCHANGED << ctx, calls, sink, rx, run0, core_vars, uart_vars >>

\* el_send: ctx->send_bytes(frame, frame_len)
AppTransmit ==
    /\ app.pc = "built"
    /\ ctx.send_bytes # NULL
    /\ sink' = Append(sink, app.frame)
    /\ app' = [app EXCEPT !.pc = "sent"]
    /\ last' = Op("app_transmit")
    /\ prev' = Snapshot
    /\ UNCHANGED << ctx, calls, rx, run0, core_vars, uart_vars >>

\* el_send: ctx->tx_frames++, the load of the counter
AppLoad ==
    /\ app.pc = "sent"
    /\ app' = [app EXCEPT !.pc = "loaded", !.tx = ctx.tx_frames]
    /\ last' = Op("app_load")
    /\ prev' = Snapshot
    /\ UNCHANGED << ctx, calls, sink, rx, run0, core_vars, uart_vars >>

\* el_send: ctx->tx_frames++, the store of the counter, and return true.
\* mid records that the receive task was inside an el_process_byte call.
AppStore ==
    /\ app.pc = "loaded"
    /\ ctx' = [ctx EXCEPT !.tx_frames = Inc32(app.tx)]
    /\ app' = [app EXCEPT !.pc = "done", !.ret = TRUE, !.mid = (rx.pc = "read")]
    /\ last' = Op("app_store")
    /\ prev' = Snapshot
    /\ UNCHANGED << calls, sink, rx, run0, core_vars, uart_vars >>

\* el_process_bytes, el_process_byte(ctx, data[i]): the reads of the context
\* and what the call computes from them
RxRead ==
    /\ rx.pc = "loop"
    /\ rx.i < Len(rx.data)
    /\ rx' = [rx EXCEPT !.pc = "read", !.r = el_process_byte(ctx, rx.data[rx.i + 1])]
    /\ last' = [Op("rx_read") EXCEPT !.byte = rx.data[rx.i + 1]]
    /\ prev' = Snapshot
    /\ UNCHANGED << ctx, calls, sink, app, run0, core_vars, uart_vars >>

\* The context c after el_process_byte has stored what it computed (n): the
\* fields the function assigns are state, msg_id, payload_len, payload_idx,
\* rx_buffer, running_crc, rx_frames and rx_errors
RxStore(c, n) ==
    [c EXCEPT !.state = n.state, !.msg_id = n.msg_id,
              !.payload_len = n.payload_len, !.payload_idx = n.payload_idx,
              !.rx_buffer = n.rx_buffer, !.running_crc = n.running_crc,
              !.rx_frames = n.rx_frames, !.rx_errors = n.rx_errors]

\* el_process_bytes, el_process_byte(ctx, data[i]): the writes of the context
\* and the on_message call, then i++
RxWrite ==
    /\ rx.pc = "read"
    /\ ctx' = RxStore(ctx, rx.r.ctx)
    /\ calls' = calls \o rx.r.cb
    /\ rx' = [rx EXCEPT !.pc = IF rx.i + 1 < Len(rx.data) THEN "loop" ELSE "done",
                        !.i = rx.i + 1]
    /\ last' = [Op("rx_write") EXCEPT !.byte = rx.data[rx.i + 1]]
    /\ prev' = Snapshot
    /\ UNCHANGED << sink, app, run0, core_vars, uart_vars >>

RaceNext ==
    \/ AppCheck
    \/ AppTransmit
    \/ AppLoad
    \/ AppStore
    \/ RxRead
    \/ RxWrite

RaceSpec == RaceInit /\ [][RaceNext]_vars

(***************************************************************************)
(* The UART transport: el_uart_init and el_uart_deinit calls of the        *)
(* application, and the task created for uart_rx_task.                     *)
(***************************************************************************)
\* calls of the application and turns of the RX task in a run
MaxUartOps == 5

\* Configs passed to el_uart_init
UartConfigs ==
    {UartConfig("UART_NUM_1", "ctx"), UartConfig("UART_NUM_2", "ctx"),
     UartConfig("UART_NUM_1", NULL), NullUartConfig}

\* Outcomes of the calls el_uart_init makes:
\* <<uart_driver_install, uart_param_config, uart_set_pin, xTaskCreate>>
UartInitOutcomes ==
    {<<"ESP_OK", "ESP_OK", "ESP_OK", "pdPASS">>,
     <<"ESP_FAIL", "ESP_OK", "ESP_OK", "pdPASS">>,
     <<"ESP_OK", "ESP_FAIL", "ESP_OK", "pdPASS">>,
     <<"ESP_OK", "ESP_OK", "ESP_FAIL", "pdPASS">>,
     <<"ESP_OK", "ESP_OK", "ESP_OK", "errCOULD_NOT_ALLOCATE_REQUIRED_MEMORY">>}

\* What uart_read_bytes returns in a turn of the RX task: nothing (timeout),
\* a whole frame, the start of one
UartReads ==
    {<<>>, <<EL_SYNC_BYTE, 16, 0, 87>>, <<EL_SYNC_BYTE, 16, 1>>}

\* The statics of etherlink_uart.c as one record
UartStatics ==
    [uart_port |-> uart_port, protocol_ctx |-> uart_protocol_ctx,
     rx_task_handle |-> rx_task_handle, initialized |-> initialized]

UartInit ==
    /\ ctx = InitCtx
    /\ UartBoot
    /\ calls = <<>>
    /\ sink = <<>>
    /\ prev = [ctx |-> ctx, calls |-> <<>>, sink |-> <<>>, air |-> <<>>]
    /\ last = Op("start")
    /\ nops = 0
    /\ air = <<>>
    /\ conn_handle = BLE_HS_CONN_HANDLE_NONE
    /\ protocol_ctx = NULL
    /\ wire = <<>>
    /\ since_sync = <<>>
    /\ scn = NoScn
    /\ mode = "stream"
    /\ nsends = 0
    /\ phase = "core"
    /\ ble_config = NullBleConfig
    /\ link_calls = <<>>
    /\ cut = NoCut
    /\ app = NoApp
    /\ rx = NoRx
    /\ run0 = InitCtx

\* The statics, drivers and task after a call that returned r
UartAfter(r) ==
    /\ uart_port' = r.u.uart_port
    /\ uart_protocol_ctx' = r.u.protocol_ctx
    /\ rx_task_handle' = r.u.rx_task_handle
    /\ initialized' = r.u.initialized
    /\ driver' = r.drv
    /\ rx_task' = r.task

\* What stays as it is in a call of the application to the transport
UartCallFrame ==
    /\ nops' = nops + 1
    /\ prev' = Snapshot
    /\ UNCHANGED << ctx, calls, sink, rx, run0, air, conn_handle, protocol_ctx,
                    wire, since_sync, scn, mode, nsends, phase, ble_config,
                    link_calls, cut >>

\* el_uart_init up to xTaskCreate: it returns an error, or has created the RX
\* task and goes on.  The driver of a port that has one cannot be installed
\* again.
ElUartInit(config, o) ==
    /\ BetweenCalls
    /\ rx_task # "fault"
    /\ nops < MaxUartOps
    /\ config.port \in driver => o[1] # "ESP_OK"
    /\ LET r == el_uart_init(UartStatics, driver, rx_task, config,
                             o[1], o[2], o[3], o[4])
       IN  /\ UartAfter(r)
           /\ last' = [Op("el_uart_init") EXCEPT !.err = r.err]
           /\ app' = IF r.err = "none" THEN [NoApp EXCEPT !.pc = "task_created"]
                                       ELSE NoApp
    /\ UartCallFrame

\* el_uart_init from xTaskCreate on: initialized is set and ESP_OK returned.
\* The RX task may have run in between.
ElUartInitReturn ==
    /\ app.pc = "task_created"
    /\ rx_task # "fault"
    /\ LET r == el_uart_init_return(UartStatics, driver, rx_task)
       IN  /\ UartAfter(r)
           /\ last' = [Op("el_uart_init") EXCEPT !.err = r.err]
    /\ app' = NoApp
    /\ prev' = Snapshot
    /\ UNCHANGED << ctx, calls, sink, rx, run0, core_vars >>

\* el_uart_deinit
ElUartDeinit(delete_ret, stale) ==
    /\ BetweenCalls
    /\ rx_task # "fault"
    /\ nops < MaxUartOps
    /\ LET r == el_uart_deinit(UartStatics, driver, rx_task, delete_ret, stale)
       IN  /\ UartAfter(r)
           /\ last' = [Op("el_uart_deinit") EXCEPT !.err = r.err]
    /\ UNCHANGED app
    /\ UartCallFrame

\* The RX task is scheduled for the first time; data is what malloc returned
RxTaskStart(data) ==
    /\ rx_task = "created"
    /\ nops < MaxUartOps
    /\ rx_task' = uart_rx_task_start(data)
    /\ last' = Op("uart_rx_task")
    /\ UNCHANGED app
    /\ UartCallFrame
    /\ UNCHANGED << uart_port, uart_protocol_ctx, rx_task_handle, initialized,
                    driver >>

\* A turn of the loop of the RX task
RxTaskRead(read) ==
    /\ rx_task = "running"
    /\ nops < MaxUartOps
    /\ LET r == uart_rx_task_loop(uart_protocol_ctx, ctx, read)
       IN  /\ ctx' = r.ctx
           /\ calls' = calls \o r.cb
    /\ last' = [Op("uart_read") EXCEPT !.len = Len(read)]
    /\ nops' = nops + 1
    /\ prev' = Snapshot
    /\ UNCHANGED << sink, race_vars, uart_vars, air, conn_handle, protocol_ctx,
                    wire, since_sync, scn, mode, nsends, phase, ble_config,
                    link_calls, cut >>

UartNext ==
    \/ \E c \in UartConfigs, o \in UartInitOutcomes : ElUartInit(c, o)
    \/ ElUartInitReturn
    \/ \E d \in {"ESP_OK", "ESP_FAIL"}, stale \in {"ignored", "fault"} :
          ElUartDeinit(d, stale)
    \/ \E data \in {"data", NULL} : RxTaskStart(data)
    \/ \E read \in UartReads : RxTaskRead(read)

UartSpec == UartInit /\ [][UartNext]_vars

(***************************************************************************)
(* Reference CRC-8 (polynomial 0x07, initial value 0x00, no reflection),   *)
(* computed bit by bit: the yardstick the properties compare the code to   *)
(***************************************************************************)
RECURSIVE RefShift(_, _)
RefShift(c, n) ==
    IF n = 0 THEN c
    ELSE RefShift(IF c >= 128 THEN Xor((c * 2) % 256, 7) ELSE (c * 2) % 256, n - 1)

RECURSIVE RefFold(_, _, _, _)
RefFold(crc, data, i, len) ==
    IF i >= len THEN crc
    ELSE IF len - i = 1 THEN RefShift(Xor(crc, data[i + 1]), 8)
    ELSE LET mid  == i + ((len - i) \div 2)
             left == RefFold(crc, data, i, mid)
         IN  IF left \in Byte THEN RefFold(left, data, mid, len) ELSE left

RefCrc8(data) == RefFold(0, data, 0, Len(data))

\* The checksum a frame with this message id and payload must carry
FrameCrc(msg_id, payload) == RefCrc8(<< msg_id, Len(payload) >> \o payload)

(***************************************************************************)
(* Vocabulary of the properties                                            *)
(***************************************************************************)
\* The on_message invocation that delivers payload under msg_id
Message(msg_id, payload) ==
    [msg_id |-> msg_id, payload |-> payload, len |-> Len(payload)]

\* The latest operation was an el_process_byte call
ByteStep == last.op = "byte"

\* The latest operation was an el_send call
SendStep == last.op = "send"

\* A looped-back frame is being fed to a parser that was in Idle
FromIdle == scn.active /\ scn.state0 = EL_STATE_IDLE

\* ... intact, and its last byte has been consumed
IntactDone == FromIdle /\ scn.pos = 0 /\ wire = <<>>

\* ... with one bit inverted at position pos, and its last byte has been consumed
FlippedDone(pos) == FromIdle /\ scn.pos = pos /\ wire = <<>>

\* Bytes of the scenario (noise and frame) consumed so far
Consumed == Len(scn.noise) + Len(scn.frame) - Len(wire)

\* The frame of the scenario was accepted: one callback with its message
AcceptedOnce ==
    /\ calls = Append(scn.calls0, Message(scn.msg_id, scn.payload))
    /\ ctx.rx_frames = Inc32(scn.rx_frames0)
    /\ ctx.rx_errors = scn.rx_errors0
    /\ ctx.state = EL_STATE_IDLE

\* The frame of the scenario was rejected: no callback, one rejection counted
RejectedOnce ==
    /\ calls = scn.calls0
    /\ ctx.rx_frames = scn.rx_frames0
    /\ ctx.rx_errors = Inc32(scn.rx_errors0)
    /\ ctx.state = EL_STATE_IDLE

(***************************************************************************)
(* C1  Round trip: the bytes el_send hands to the sink for message id m    *)
(* and payload p (0 <= |p| <= 250), fed in order to a parser in Idle, give *)
(* exactly one on_message invocation carrying (m, p, |p|), add 1 to        *)
(* rx_frames, leave rx_errors unchanged and leave the parser in Idle.      *)
(***************************************************************************)
C1_RoundTrip ==
    (IntactDone /\ scn.noise = <<>>) => AcceptedOnce

C1_Witness ==
    /\ IntactDone /\ scn.noise = <<>>
    /\ Len(scn.payload) = EL_MAX_PAYLOAD
    /\ calls = << Message(scn.msg_id, scn.payload) >>

(***************************************************************************)
(* C2  No partial or malformed message reaches the application: only an    *)
(* el_process_byte call invokes on_message, at most once, and then with    *)
(* (id, payload, len) such that len <= 250, id and len are the two bytes   *)
(* consumed right after the latest sync byte accepted in Idle, payload is  *)
(* the len bytes consumed after the length byte, and the byte consumed by  *)
(* this call is the CRC-8 of id, len and payload.                          *)
(***************************************************************************)
C2_WellFormedCallbacks ==
    \/ calls = prev.calls
    \/ /\ ByteStep
       /\ Len(calls) = Len(prev.calls) + 1
       /\ SubSeq(calls, 1, Len(prev.calls)) = prev.calls
       /\ LET m == calls[Len(calls)]
          IN  /\ m.len <= EL_MAX_PAYLOAD
              /\ Len(m.payload) = m.len
              /\ since_sync = << m.msg_id, m.len >> \o m.payload \o << last.byte >>
              /\ last.byte = FrameCrc(m.msg_id, m.payload)

C2_Witness ==
    /\ ByteStep
    /\ Len(calls) = Len(prev.calls) + 1
    /\ calls[Len(calls)].len = 3
    /\ mode = "frame"

(***************************************************************************)
(* C3  Checksum mismatch: a byte consumed in GotPayload that differs from  *)
(* the running CRC invokes no callback, adds 1 to rx_errors, leaves        *)
(* rx_frames unchanged and leaves the parser in Idle; in particular a      *)
(* valid frame with one bit of its checksum byte inverted is rejected.     *)
(***************************************************************************)
C3_ChecksumMismatch ==
    /\ (ByteStep /\ prev.ctx.state = EL_STATE_GOT_PAYLOAD
                 /\ last.byte # prev.ctx.running_crc)
          => /\ calls = prev.calls
             /\ ctx.rx_errors = Inc32(prev.ctx.rx_errors)
             /\ ctx.rx_frames = prev.ctx.rx_frames
             /\ ctx.state = EL_STATE_IDLE
    /\ FlippedDone(Len(scn.frame)) => RejectedOnce

C3_Witness ==
    /\ FlippedDone(Len(scn.frame))
    /\ ByteStep
    /\ prev.ctx.state = EL_STATE_GOT_PAYLOAD
    /\ last.byte # prev.ctx.running_crc
    /\ ctx.rx_errors = U32(1)

(***************************************************************************)
(* C4  Checksum sensitivity, message id and payload: a valid frame with    *)
(* one bit of its message-id byte or of a payload byte inverted, fed to a  *)
(* parser in Idle, invokes no callback, adds exactly 1 to rx_errors and    *)
(* leaves the parser in Idle after the last byte of the frame.             *)
(***************************************************************************)
C4_IdPayloadBitFlip ==
    (FromIdle /\ wire = <<>>
        /\ (scn.pos = 2 \/ (scn.pos >= 4 /\ scn.pos < Len(scn.frame))))
      => RejectedOnce

C4_Witness ==
    /\ FromIdle /\ wire = <<>>
    /\ scn.pos = Len(scn.frame) - 1
    /\ Len(scn.payload) = EL_MAX_PAYLOAD
    /\ ctx.rx_errors = U32(1)

\* The length the parser reads when bit scn.bit of the length byte is inverted
FlippedLen == FlipBit(Len(scn.payload), scn.bit)

\* A looped-back frame with one bit of its length byte inverted is being fed
\* to a parser that was in Idle
LengthFlip == FromIdle /\ scn.pos = 3

\* The latest step was an el_send call up to the return of send_bytes
TransmitStep == last.op = "send_bytes"

\* The arguments of the latest el_send were a length in 0..250 and a payload
\* that is null only if the length is 0
ValidSendArgs ==
    /\ last.len <= EL_MAX_PAYLOAD
    /\ last.len > 0 => ~last.payload.is_null

(***************************************************************************)
(* C5  Checksum sensitivity, length byte.  A valid frame of message id m   *)
(* and payload p with one bit of its length byte inverted (declared length *)
(* n instead of |p|), fed to a parser in Idle, is not rejected in every    *)
(* case; the outcome depends on n:                                         *)
(*  - n > 250: the frame is rejected on the length byte (no callback,      *)
(*    rx_errors + 1, parser in Idle), and the bytes that follow are        *)
(*    scanned for a sync marker;                                           *)
(*  - |p| < n <= 250: no callback is made, no counter changes, and after   *)
(*    the last byte of the frame the parser is still inside the frame      *)
(*    (GotPayload when n = |p| + 1, GotLen otherwise);                     *)
(*  - n < |p|: the parser takes payload byte n + 1 as the checksum and is  *)
(*    in Idle after it, having rejected the frame (no callback,            *)
(*    rx_errors + 1) unless that byte is the CRC-8 of m, n and the first n *)
(*    payload bytes, in which case the truncated message (m, first n       *)
(*    bytes) is delivered and rx_frames is incremented.                    *)
(***************************************************************************)
C5_LengthBitFlipOutcome ==
    LengthFlip =>
      LET n == FlippedLen
          p == scn.payload
      IN  /\ (n > EL_MAX_PAYLOAD /\ Consumed = 3) => RejectedOnce
          /\ (n > Len(p) /\ n <= EL_MAX_PAYLOAD /\ wire = <<>>)
                => /\ calls = scn.calls0
                   /\ ctx.rx_frames = scn.rx_frames0
                   /\ ctx.rx_errors = scn.rx_errors0
                   /\ ctx.state = IF n = Len(p) + 1 THEN EL_STATE_GOT_PAYLOAD
                                                    ELSE EL_STATE_GOT_LEN
          /\ (n < Len(p) /\ Consumed = n + 4)
                => /\ ctx.state = EL_STATE_IDLE
                   /\ IF p[n + 1] = RefCrc8(<< scn.msg_id, n >> \o SubSeq(p, 1, n))
                      THEN /\ calls = Append(scn.calls0,
                                             Message(scn.msg_id, SubSeq(p, 1, n)))
                           /\ ctx.rx_frames = Inc32(scn.rx_frames0)
                           /\ ctx.rx_errors = scn.rx_errors0
                      ELSE /\ calls = scn.calls0
                           /\ ctx.rx_frames = scn.rx_frames0
                           /\ ctx.rx_errors = Inc32(scn.rx_errors0)

\* A truncated message has been delivered from a frame with a shortened length
C5_Witness ==
    /\ LengthFlip
    /\ FlippedLen < Len(scn.payload)
    /\ Consumed = FlippedLen + 4
    /\ Len(calls) = Len(scn.calls0) + 1

\* C5 as stated: the frame is rejected once, without a callback, and the
\* parser is in Idle when the last byte of the frame has been consumed
C5_LengthBitFlipRejected ==
    (LengthFlip /\ wire = <<>>) => RejectedOnce

(***************************************************************************)
(* C6  Oversized length: a byte above 250 consumed in GotId rejects the    *)
(* frame on that byte: rx_errors + 1, no callback, rx_buffer not written,  *)
(* parser in Idle.  The next sync byte then moves the parser to GotSync    *)
(* with a cleared CRC, and a valid frame fed after the rejection is        *)
(* accepted.                                                               *)
(***************************************************************************)
C6_OversizedLength ==
    /\ (ByteStep /\ prev.ctx.state = EL_STATE_GOT_ID /\ last.byte > EL_MAX_PAYLOAD)
          => /\ ctx.rx_errors = Inc32(prev.ctx.rx_errors)
             /\ ctx.rx_frames = prev.ctx.rx_frames
             /\ calls = prev.calls
             /\ ctx.rx_buffer = prev.ctx.rx_buffer
             /\ ctx.state = EL_STATE_IDLE
    /\ (ByteStep /\ prev.ctx.state = EL_STATE_IDLE
                 /\ prev.ctx.payload_len > EL_MAX_PAYLOAD
                 /\ last.byte = EL_SYNC_BYTE)
          => /\ ctx.state = EL_STATE_GOT_SYNC
             /\ ctx.running_crc = 0
    /\ (IntactDone /\ scn.payload_len0 > EL_MAX_PAYLOAD) => AcceptedOnce

\* A frame was rejected for its length and the frame fed next was accepted
C6_Witness ==
    /\ IntactDone
    /\ scn.payload_len0 > EL_MAX_PAYLOAD
    /\ scn.rx_errors0 = U32(1)
    /\ ctx.rx_frames = U32(1)
    /\ Len(calls) = 1

(***************************************************************************)
(* C7  Noise tolerance: a byte other than the sync marker consumed in Idle *)
(* changes nothing in the context and invokes no callback; a valid frame   *)
(* fed right after a run of such bytes is accepted exactly as without the  *)
(* run: one callback with its id and payload, rx_frames + 1, rx_errors     *)
(* unchanged.                                                              *)
(***************************************************************************)
C7_NoiseTolerance ==
    /\ (ByteStep /\ prev.ctx.state = EL_STATE_IDLE /\ last.byte # EL_SYNC_BYTE)
          => /\ ctx = prev.ctx
             /\ calls = prev.calls
    /\ (FromIdle /\ scn.noise # <<>> /\ Consumed = Len(scn.noise))
          => /\ ctx.state = EL_STATE_IDLE
             /\ ctx.rx_frames = scn.rx_frames0
             /\ ctx.rx_errors = scn.rx_errors0
             /\ calls = scn.calls0
    /\ (IntactDone /\ scn.noise # <<>>) => AcceptedOnce

C7_Witness ==
    /\ IntactDone
    /\ Len(scn.noise) = MaxNoise
    /\ Len(scn.payload) > 0
    /\ Len(calls) = Len(scn.calls0) + 1

(***************************************************************************)
(* C8  Encoder output: el_send with a length len in 0..250 (and a payload  *)
(* that is null only if len is 0) returns true, invokes the sink exactly   *)
(* once with the len + 4 bytes [0xA5, id, len, payload..., CRC-8 of id,    *)
(* len and payload] and adds 1 to tx_frames; the 8-bit frame length never  *)
(* wraps.  The call has two steps: up to the return of send_bytes it       *)
(* leaves the context as it is, then it counts the frame and returns.      *)
(***************************************************************************)
C8_EncoderOutput ==
    /\ (SendStep /\ ValidSendArgs) =>
          LET p == SubSeq(last.payload.bytes, 1, last.len)
              frame == << EL_SYNC_BYTE, last.msg_id, last.len >> \o p
                         \o << FrameCrc(last.msg_id, p) >>
          IN  /\ last.ret
              /\ sink = Append(prev.sink, frame)
              /\ Len(sink[Len(sink)]) = last.len + EL_FRAME_OVERHEAD
              /\ ctx = [prev.ctx EXCEPT !.tx_frames = Inc32(prev.ctx.tx_frames)]
    /\ TransmitStep => /\ ValidSendArgs \/ app.op = "EL_SEND"
                       /\ ctx = prev.ctx
                       /\ Len(sink) = Len(prev.sink) + 1

C8_Witness ==
    /\ SendStep /\ ValidSendArgs
    /\ last.len = EL_MAX_PAYLOAD
    /\ Len(sink) = 1
    /\ Len(sink[1]) = EL_MAX_PAYLOAD + EL_FRAME_OVERHEAD

(***************************************************************************)
(* C9  Encoder rejection: el_send with a length above 250, or with a null  *)
(* payload and a non-zero length, returns false, does not invoke the sink  *)
(* (nothing is transmitted) and leaves every field of the context,         *)
(* tx_frames included, unchanged.                                          *)
(***************************************************************************)
C9_EncoderRejection ==
    (SendStep /\ ~ValidSendArgs) =>
      /\ ~last.ret
      /\ sink = prev.sink
      /\ air = prev.air
      /\ ctx = prev.ctx

C9_Witness ==
    /\ SendStep
    /\ last.payload.is_null
    /\ last.len = 1
    /\ ~last.ret

\* The natural number x + n, for a uint32_t x and a small n: how many times
\* 2^32 is in it, and the rest
Plus(x, n) ==
    LET lo == x.lo + n
        hi == x.hi + (lo \div 65536)
    IN  [over |-> hi \div 65536,
         rest |-> [hi |-> hi % 65536, lo |-> lo % 65536]]

\* The uint32_t x as a natural number
Value(x) == [over |-> 0, rest |-> x]

\* a < b, for two uint32_t
Below32(a, b) == a.hi < b.hi \/ (a.hi = b.hi /\ a.lo < b.lo)

\* The el_send calls that have returned true: each has handed one frame to
\* the sink, as has the call that is yet to count its frame
Accepted == Len(sink) - (IF app.pc = "sent" THEN 1 ELSE 0)

\* A valid el_send returns true and increments tx_frames whether the sink
\* transmits the frame or not; the sink transmits only over a connection
SendIgnoresSink ==
    /\ (SendStep /\ ValidSendArgs)
          => /\ last.ret
             /\ ctx.tx_frames = Inc32(prev.ctx.tx_frames)
             /\ Len(sink) = Len(prev.sink) + 1
             /\ air \in {prev.air, Append(prev.air, sink[Len(sink)])}
    /\ TransmitStep
          => \/ air = prev.air
             \/ /\ conn_handle # BLE_HS_CONN_HANDLE_NONE
                /\ air = Append(prev.air, sink[Len(sink)])

(***************************************************************************)
(* C10  Sink failure is not reconciled: a valid el_send returns true and   *)
(* increments tx_frames (a uint32_t: 4294967295 becomes 0) whether the     *)
(* sink transmits the frame or not; with no BLE connection the sink        *)
(* transmits nothing, with one it transmits the frame or (on a stack       *)
(* error) nothing.  From el_init on, tx_frames thus equals, modulo 2^32,   *)
(* the number of el_send calls that have returned true (a call that is     *)
(* still inside send_bytes has handed its frame to the sink and is not yet *)
(* counted), while the frames transmitted can be fewer than the frames     *)
(* handed to the sink.                                                     *)
(***************************************************************************)
C10_SinkFailureNotReconciled ==
    /\ SendIgnoresSink
    /\ phase # "boot" => /\ ctx.tx_frames = Plus(run0.tx_frames, Accepted).rest
                         /\ Len(air) <= Len(sink)

\* C10 as stated: tx_frames equals the number of accepted el_send calls
C10_CountsAcceptedCalls ==
    /\ SendIgnoresSink
    /\ phase # "boot" => /\ Value(ctx.tx_frames) = Plus(run0.tx_frames, Accepted)
                         /\ Len(air) <= Len(sink)

\* The 4294967296th frame was counted as transmitted while the link was
\* down, and tx_frames is 0
C10_Witness ==
    /\ SendStep /\ ValidSendArgs
    /\ conn_handle = BLE_HS_CONN_HANDLE_NONE
    /\ prev.ctx.tx_frames = UINT32_MAX
    /\ ctx.tx_frames = U32(0)
    /\ air = <<>>

\* The latest operation was an el_init call on a context
InitStep == last.op = "el_init" /\ last.ctxp # NULL

\* A callback of the config of the latest el_init call is absent
CallbackAbsent ==
    \/ last.config.is_null
    \/ last.config.on_message = NULL
    \/ last.config.send_bytes = NULL

(***************************************************************************)
(* C11  Initialization: el_init on a context returns false and leaves the  *)
(* context unmodified when the message callback or the byte-sink callback  *)
(* is absent; otherwise it returns true and leaves the context with both   *)
(* callbacks stored, the parser in Idle, cursor and running CRC at 0 and   *)
(* the three counters at 0, whatever the context memory held before.       *)
(***************************************************************************)
C11_Initialization ==
    InitStep =>
      IF CallbackAbsent
      THEN /\ ~last.ret
           /\ ctx = prev.ctx
      ELSE /\ last.ret
           /\ ctx.on_message = last.config.on_message
           /\ ctx.send_bytes = last.config.send_bytes
           /\ ctx.state = EL_STATE_IDLE
           /\ ctx.payload_idx = 0
           /\ ctx.running_crc = 0
           /\ ctx.rx_frames = U32(0) /\ ctx.rx_errors = U32(0) /\ ctx.tx_frames = U32(0)

\* el_init has succeeded on context memory that held stale counters
C11_Witness ==
    /\ InitStep /\ ~CallbackAbsent
    /\ last.ret
    /\ prev.ctx.rx_frames # U32(0)
    /\ prev.ctx.state # EL_STATE_IDLE
    /\ ctx.rx_frames = U32(0)

\* The latest operation was an el_reset call
ResetStep == last.op = "reset"

\* The three statistics counters of a context
Counters(c) == << c.rx_frames, c.rx_errors, c.tx_frames >>

(***************************************************************************)
(* C12  Reset effect: from any reachable context, el_reset sets the parser *)
(* state to Idle and the write cursor and running CRC to 0, and leaves the *)
(* three counters, the receive buffer contents and both callbacks          *)
(* unchanged.                                                              *)
(***************************************************************************)
C12_ResetEffect ==
    ResetStep =>
      /\ ctx.state = EL_STATE_IDLE
      /\ ctx.payload_idx = 0
      /\ ctx.running_crc = 0
      /\ Counters(ctx) = Counters(prev.ctx)
      /\ ctx.rx_buffer = prev.ctx.rx_buffer
      /\ ctx.on_message = prev.ctx.on_message
      /\ ctx.send_bytes = prev.ctx.send_bytes

\* A reset met a parser inside a frame, with a cursor, a CRC and a counter
\* that were not 0
C12_Witness ==
    /\ ResetStep
    /\ prev.ctx.state = EL_STATE_GOT_PAYLOAD
    /\ prev.ctx.payload_idx > 0
    /\ prev.ctx.running_crc # 0
    /\ prev.ctx.tx_frames # U32(0)

(***************************************************************************)
(* C13  Reset of an idle context.  For every reachable context whose       *)
(* parser is in Idle, el_reset leaves the state (Idle), the in-progress id *)
(* and length, the three counters, the buffer and the callbacks identical, *)
(* and sets the write cursor and the running CRC to 0: these two differ    *)
(* from their values before the call when the frame that was last          *)
(* accepted or rejected left them non-zero.                                *)
(***************************************************************************)
C13_IdleResetEffect ==
    (ResetStep /\ prev.ctx.state = EL_STATE_IDLE) =>
      ctx = [prev.ctx EXCEPT !.payload_idx = 0, !.running_crc = 0]

\* An idle parser that had just accepted a frame with a payload was reset
C13_Witness ==
    /\ ResetStep
    /\ prev.ctx.state = EL_STATE_IDLE
    /\ prev.ctx.rx_frames = U32(1)
    /\ prev.ctx.payload_idx = 1
    /\ prev.ctx.running_crc # 0
    /\ ctx.payload_idx = 0

\* C13 as stated: the state, write cursor, running CRC, in-progress id and
\* length, counters and buffer after the reset are those before it
C13_IdleResetNoOp ==
    (ResetStep /\ prev.ctx.state = EL_STATE_IDLE) =>
      /\ ctx.state = prev.ctx.state
      /\ ctx.payload_idx = prev.ctx.payload_idx
      /\ ctx.running_crc = prev.ctx.running_crc
      /\ ctx.msg_id = prev.ctx.msg_id
      /\ ctx.payload_len = prev.ctx.payload_len
      /\ Counters(ctx) = Counters(prev.ctx)
      /\ ctx.rx_buffer = prev.ctx.rx_buffer

\* The latest el_reset met a parser inside a frame and only a looped-back
\* frame has been fed since
ResetMidFrame == cut.active /\ cut.op = "reset" /\ cut.state # EL_STATE_IDLE

(***************************************************************************)
(* C14  Reset mid-frame discards the in-progress frame: an el_reset in     *)
(* GotSync, GotId, GotLen or GotPayload makes no callback and leaves the   *)
(* counters as they were; while a valid frame is fed right after it, no    *)
(* frame is rejected and no callback is made but the one of that frame;    *)
(* and once its last byte is consumed the frame has been delivered exactly *)
(* once, with its own id and payload, and rx_frames is one more than       *)
(* before the reset.                                                       *)
(***************************************************************************)
C14_ResetMidFrame ==
    /\ (ResetStep /\ prev.ctx.state # EL_STATE_IDLE)
          => /\ Counters(ctx) = Counters(prev.ctx)
             /\ calls = prev.calls
             /\ ctx.state = EL_STATE_IDLE
    /\ (ResetMidFrame /\ scn.active /\ scn.pos = 0)
          => /\ ctx.rx_errors = cut.rx_errors
             /\ \/ calls = cut.calls /\ ctx.rx_frames = cut.rx_frames
                \/ /\ calls = Append(cut.calls, Message(scn.msg_id, scn.payload))
                   /\ ctx.rx_frames = Inc32(cut.rx_frames)
                   /\ wire = <<>>
    /\ (ResetMidFrame /\ IntactDone)
          => /\ calls = Append(cut.calls, Message(scn.msg_id, scn.payload))
             /\ ctx.rx_frames = Inc32(cut.rx_frames)
             /\ ctx.rx_errors = cut.rx_errors
             /\ ctx.state = EL_STATE_IDLE

\* A frame was delivered right after a reset that discarded a frame whose
\* payload was awaited
C14_Witness ==
    /\ ResetMidFrame /\ IntactDone
    /\ cut.state = EL_STATE_GOT_LEN
    /\ cut.since_sync # <<>>
    /\ calls = Append(cut.calls, Message(scn.msg_id, scn.payload))

(***************************************************************************)
(* C15  Chunking independence: however the bytes of a stream are split     *)
(* between el_process_byte calls and el_process_bytes calls on chunks (the *)
(* GATT writes of the BLE transport), once the last byte is consumed the   *)
(* context and the ordered callback invocations are those of one           *)
(* el_process_bytes call on the whole stream.                              *)
(***************************************************************************)
C15_ChunkingIndependence ==
    (scn.active /\ wire = <<>>) =>
      /\ ctx = scn.whole.ctx
      /\ calls = scn.calls0 \o scn.whole.cb

\* A frame with a payload was delivered by a write that started inside it
C15_Witness ==
    /\ scn.active /\ wire = <<>>
    /\ Len(scn.frame) = 5
    /\ last.chunk = 2
    /\ calls = Append(scn.calls0, Message(scn.msg_id, scn.payload))

\* A consumed byte increments at most one of rx_frames and rx_errors
OneCountPerByte ==
    ByteStep
       => \/ /\ ctx.rx_frames = prev.ctx.rx_frames
             /\ ctx.rx_errors = prev.ctx.rx_errors
          \/ /\ ctx.rx_frames = Inc32(prev.ctx.rx_frames)
             /\ ctx.rx_errors = prev.ctx.rx_errors
          \/ /\ ctx.rx_frames = prev.ctx.rx_frames
             /\ ctx.rx_errors = Inc32(prev.ctx.rx_errors)

(***************************************************************************)
(* C16  Counter/callback accounting: in every state after el_init          *)
(* rx_frames equals, modulo 2^32, the number of on_message invocations     *)
(* made so far; each consumed byte increments at most one of rx_frames and *)
(* rx_errors; no operation after el_init (el_process_byte,                 *)
(* el_process_bytes, el_send, el_reset, link events) changes a counter     *)
(* except by incrementing it, which takes 4294967295 to 0.                 *)
(***************************************************************************)
C16_AccountingModulo ==
    /\ phase # "boot"
          => ctx.rx_frames = Plus(run0.rx_frames, Len(calls)).rest
    /\ OneCountPerByte
    /\ last.op \notin {"boot", "el_init"}
          => /\ ctx.rx_frames \in {prev.ctx.rx_frames, Inc32(prev.ctx.rx_frames)}
             /\ ctx.rx_errors \in {prev.ctx.rx_errors, Inc32(prev.ctx.rx_errors)}
             /\ ctx.tx_frames \in {prev.ctx.tx_frames, Inc32(prev.ctx.tx_frames)}

\* C16 as stated: rx_frames equals the number of on_message invocations and
\* no counter is ever decreased
C16_Accounting ==
    /\ phase # "boot"
          => Value(ctx.rx_frames) = Plus(run0.rx_frames, Len(calls))
    /\ OneCountPerByte
    /\ last.op \notin {"boot", "el_init"}
          => /\ ~Below32(ctx.rx_frames, prev.ctx.rx_frames)
             /\ ~Below32(ctx.rx_errors, prev.ctx.rx_errors)
             /\ ~Below32(ctx.tx_frames, prev.ctx.tx_frames)

\* The 4294967296th frame has been sent and accepted: the callback was
\* invoked and rx_frames is 0
C16_Witness ==
    /\ ByteStep
    /\ prev.ctx.rx_frames = UINT32_MAX /\ ctx.rx_frames = U32(0)
    /\ ctx.tx_frames = U32(0)
    /\ Len(calls) = 1

\* The fold of el_crc8_update over data[i+1..len], from crc
RECURSIVE FoldUpdate(_, _, _, _)
FoldUpdate(crc, data, i, len) ==
    IF i >= len THEN crc
    ELSE IF len - i = 1 THEN el_crc8_update(crc, data[i + 1])
    ELSE LET mid  == i + ((len - i) \div 2)
             left == FoldUpdate(crc, data, i, mid)
         IN  IF left \in Byte THEN FoldUpdate(left, data, mid, len) ELSE left

\* el_crc8, the fold of el_crc8_update from 0x00 and the bitwise reference
\* agree on data
CrcAgree(data) ==
    LET c == el_crc8(data, Len(data))
    IN  /\ c = FoldUpdate(0, data, 0, Len(data))
        /\ c = RefCrc8(data)

\* The parser is inside a frame
InFrame ==
    /\ phase # "boot"
    /\ ctx.state \in {EL_STATE_GOT_SYNC, EL_STATE_GOT_ID, EL_STATE_GOT_LEN,
                      EL_STATE_GOT_PAYLOAD}

(***************************************************************************)
(* C17  CRC engine: el_crc8 returns the fold of el_crc8_update from 0x00,  *)
(* and that value is the bit-by-bit CRC-8 (polynomial 0x07, initial value  *)
(* 0x00, no reflection): on the id, length and payload of every frame      *)
(* el_send emits, and on the id, length and payload the parser has         *)
(* consumed when it awaits a checksum.  Inside a frame the parser's        *)
(* running CRC is el_crc8 of the bytes consumed since the sync byte.  Each *)
(* of the 256 table entries is the reference CRC of its index.             *)
(***************************************************************************)
C17_CrcEngine ==
    /\ phase = "boot" => \A i \in Byte : crc8_table[i + 1] = RefShift(i, 8)
    /\ (SendStep /\ last.ret)
          => LET f == sink[Len(sink)]
             IN  /\ CrcAgree(SubSeq(f, 2, Len(f) - 1))
                 /\ f[Len(f)] = el_crc8(SubSeq(f, 2, Len(f) - 1), Len(f) - 2)
    /\ InFrame
          => /\ ctx.running_crc = el_crc8(since_sync, Len(since_sync))
             /\ ctx.state = EL_STATE_GOT_PAYLOAD => CrcAgree(since_sync)

\* The parser has consumed the id, the length and the 250 payload bytes of a
\* frame
C17_Witness ==
    /\ InFrame
    /\ ctx.state = EL_STATE_GOT_PAYLOAD
    /\ Len(since_sync) = EL_MAX_PAYLOAD + 2
    /\ ctx.running_crc = RefCrc8(since_sync)
    /\ ctx.running_crc # 0

\* The latest operation was the handling of a BLE disconnect event
DisconnectStep == last.op = "disconnect"

\* The latest disconnect was handled with a protocol context configured and
\* only a looped-back frame has been fed since
StaleDisconnect == cut.active /\ cut.op = "disconnect" /\ protocol_ctx # NULL

(***************************************************************************)
(* C18  BLE disconnect clears a stale parse: handling a disconnect event   *)
(* with a protocol context configured resets the parser to Idle (cursor    *)
(* and running CRC 0) without a callback or a counter change; whatever     *)
(* prefix of a frame had been received before, a valid frame received      *)
(* next (after the next connection) is delivered exactly once with its own *)
(* id and payload, no frame is rejected meanwhile and no other callback is *)
(* made.                                                                   *)
(***************************************************************************)
C18_DisconnectClearsParse ==
    /\ (DisconnectStep /\ protocol_ctx # NULL)
          => /\ ctx.state = EL_STATE_IDLE
             /\ ctx.payload_idx = 0
             /\ ctx.running_crc = 0
             /\ Counters(ctx) = Counters(prev.ctx)
             /\ calls = prev.calls
    /\ (StaleDisconnect /\ scn.active /\ scn.pos = 0)
          => /\ ctx.rx_errors = cut.rx_errors
             /\ \/ calls = cut.calls /\ ctx.rx_frames = cut.rx_frames
                \/ /\ calls = Append(cut.calls, Message(scn.msg_id, scn.payload))
                   /\ ctx.rx_frames = Inc32(cut.rx_frames)
                   /\ wire = <<>>
    /\ (StaleDisconnect /\ IntactDone)
          => /\ calls = Append(cut.calls, Message(scn.msg_id, scn.payload))
             /\ ctx.rx_frames = Inc32(cut.rx_frames)
             /\ ctx.rx_errors = cut.rx_errors
             /\ ctx.state = EL_STATE_IDLE

\* The link dropped inside a frame, came back, and a frame written by the
\* client was delivered
C18_Witness ==
    /\ StaleDisconnect /\ IntactDone
    /\ cut.state # EL_STATE_IDLE
    /\ conn_handle # BLE_HS_CONN_HANDLE_NONE
    /\ last.chunk > 0
    /\ calls = Append(cut.calls, Message(scn.msg_id, scn.payload))

(***************************************************************************)
(* C19  BLE connection callbacks: when on_connect is set in the config     *)
(* passed to el_ble_init, handling a successful connection invokes it;     *)
(* when on_disconnect is set, handling a disconnect invokes it.            *)
(***************************************************************************)
C19_ConnectionCallbacks ==
    /\ (last.op = "connect" /\ last.ret /\ ble_config.on_connect # NULL)
          => /\ link_calls # <<>>
             /\ link_calls[Len(link_calls)] = ble_config.on_connect
    /\ (DisconnectStep /\ ble_config.on_disconnect # NULL)
          => /\ link_calls # <<>>
             /\ link_calls[Len(link_calls)] = ble_config.on_disconnect

\* The latest operation was an EL_SEND
TypedSendStep == last.op = "EL_SEND"

(***************************************************************************)
(* C20  EL_SEND size check: EL_SEND on an object of at most 250 bytes      *)
(* transmits a frame whose length byte and payload size both equal the     *)
(* size of the object; on a larger object, sizes of 256 bytes and more     *)
(* included, the send is rejected and no frame is transmitted.             *)
(***************************************************************************)
C20_TypedSendSizeCheck ==
    TypedSendStep =>
      IF last.len <= EL_MAX_PAYLOAD
      THEN /\ last.ret
           /\ Len(sink) = Len(prev.sink) + 1
           /\ LET f == sink[Len(sink)]
              IN  /\ f[3] = last.len
                  /\ Len(f) = last.len + EL_FRAME_OVERHEAD
                  /\ SubSeq(f, 4, Len(f) - 1) = last.payload.bytes
      ELSE /\ ~last.ret
           /\ sink = prev.sink
           /\ air = prev.air

\* The state el_process_byte leaves a parser in, by the table: s is the state
\* the byte b met, idx and len the cursor and declared length after the call
TableEdge(s, b, idx, len) ==
    CASE s = EL_STATE_IDLE ->
           IF b = EL_SYNC_BYTE THEN EL_STATE_GOT_SYNC ELSE EL_STATE_IDLE
      [] s = EL_STATE_GOT_SYNC -> EL_STATE_GOT_ID
      [] s = EL_STATE_GOT_ID ->
           IF b > EL_MAX_PAYLOAD THEN EL_STATE_IDLE
           ELSE IF b = 0 THEN EL_STATE_GOT_PAYLOAD
           ELSE EL_STATE_GOT_LEN
      [] s = EL_STATE_GOT_LEN ->
           IF idx = len THEN EL_STATE_GOT_PAYLOAD ELSE EL_STATE_GOT_LEN
      [] s = EL_STATE_GOT_PAYLOAD -> EL_STATE_IDLE

\* The operations that call el_reset: el_reset itself and a disconnect of a
\* transport that has a protocol context
ResetsParser ==
    \/ last.op = "reset"
    \/ last.op = "disconnect" /\ protocol_ctx # NULL

(***************************************************************************)
(* C21  Transition structure.  From el_init on, every el_process_byte call *)
(* moves the parser state along exactly one edge of the table: Idle to     *)
(* GotSync on 0xA5 and to Idle otherwise; GotSync to GotId; GotId to       *)
(* GotLen for a length in 1..250, to GotPayload for length 0 and to Idle   *)
(* for a length above 250; GotLen to GotPayload exactly when the cursor    *)
(* reaches the declared length, else GotLen; GotPayload to Idle whether    *)
(* the checksum matched or not.  An el_reset goes to Idle, and no other    *)
(* operation changes the parser state.                                     *)
(***************************************************************************)
C21_TransitionStructure ==
    phase # "boot" =>
      /\ ByteStep =>
           ctx.state = TableEdge(prev.ctx.state, last.byte,
                                 ctx.payload_idx, ctx.payload_len)
      /\ ResetsParser => ctx.state = EL_STATE_IDLE
      /\ (~ByteStep /\ ~ResetsParser /\ last.op # "el_init") =>
           ctx.state = prev.ctx.state

\* The last byte of a payload of the maximum length has moved the parser
\* from GotLen to GotPayload
C21_Witness ==
    /\ ByteStep
    /\ prev.ctx.state = EL_STATE_GOT_LEN
    /\ ctx.state = EL_STATE_GOT_PAYLOAD
    /\ ctx.payload_len = EL_MAX_PAYLOAD

\* The latest el_process_byte call consumed the value of the sync marker in
\* state s
SyncByteIn(s) ==
    /\ phase # "boot"
    /\ ByteStep
    /\ last.byte = EL_SYNC_BYTE
    /\ prev.ctx.state = s

\* The looped-back frame carries the value of the sync marker as its message
\* id, as its checksum, as its length or in its payload
CarriesSync ==
    \/ scn.msg_id = EL_SYNC_BYTE
    \/ scn.frame[Len(scn.frame)] = EL_SYNC_BYTE
    \/ Len(scn.payload) = EL_SYNC_BYTE
    \/ \E i \in 1..Len(scn.payload) : scn.payload[i] = EL_SYNC_BYTE

(***************************************************************************)
(* C22  The sync marker is significant only in Idle.  A byte 0xA5 consumed *)
(* in GotSync is stored as the message id, in GotId as the length 165, in  *)
(* GotLen as the next payload byte, and in GotPayload it is compared with  *)
(* the running checksum; in each case it is folded into the checksum like  *)
(* any byte of that position and the parse is not restarted.  A valid      *)
(* frame whose id, length, payload or checksum is or contains 0xA5 is      *)
(* delivered intact.                                                       *)
(***************************************************************************)
C22_SyncOnlyInIdle ==
    /\ SyncByteIn(EL_STATE_GOT_SYNC) =>
         /\ ctx = [prev.ctx EXCEPT
                     !.msg_id = EL_SYNC_BYTE,
                     !.running_crc = RefCrc8(since_sync),
                     !.state = EL_STATE_GOT_ID]
         /\ calls = prev.calls
    /\ SyncByteIn(EL_STATE_GOT_ID) =>
         /\ ctx = [prev.ctx EXCEPT
                     !.payload_len = EL_SYNC_BYTE,
                     !.payload_idx = 0,
                     !.running_crc = RefCrc8(since_sync),
                     !.state = EL_STATE_GOT_LEN]
         /\ calls = prev.calls
    /\ SyncByteIn(EL_STATE_GOT_LEN) =>
         /\ ctx = [prev.ctx EXCEPT
                     !.rx_buffer[prev.ctx.payload_idx] = EL_SYNC_BYTE,
                     !.payload_idx = prev.ctx.payload_idx + 1,
                     !.running_crc = RefCrc8(since_sync),
                     !.state = IF prev.ctx.payload_idx + 1 = prev.ctx.payload_len
                               THEN EL_STATE_GOT_PAYLOAD ELSE EL_STATE_GOT_LEN]
         /\ calls = prev.calls
    /\ SyncByteIn(EL_STATE_GOT_PAYLOAD) =>
         IF prev.ctx.running_crc = EL_SYNC_BYTE
         THEN /\ ctx = [prev.ctx EXCEPT !.rx_frames = Inc32(prev.ctx.rx_frames),
                                        !.state = EL_STATE_IDLE]
              /\ Len(calls) = Len(prev.calls) + 1
         ELSE /\ ctx = [prev.ctx EXCEPT !.rx_errors = Inc32(prev.ctx.rx_errors),
                                        !.state = EL_STATE_IDLE]
              /\ calls = prev.calls
    /\ (IntactDone /\ CarriesSync) => AcceptedOnce

\* A frame whose message id, length and every payload byte is 0xA5 has been
\* fed whole and delivered
C22_Witness ==
    /\ IntactDone
    /\ scn.msg_id = EL_SYNC_BYTE
    /\ scn.payload = SyncPayload
    /\ calls = Append(scn.calls0, Message(EL_SYNC_BYTE, SyncPayload))

\* The latest el_process_byte call met the parser in GotLen: the one case
\* that writes into rx_buffer
BufferWrite == ByteStep /\ prev.ctx.state = EL_STATE_GOT_LEN

(***************************************************************************)
(* C24  Bounded buffer use.  From el_init on, under every sequence of      *)
(* el_process_byte and el_reset calls: in GotLen the declared length is in *)
(* 1..250 and the cursor is below it; every write into rx_buffer is at the *)
(* cursor, an index in 0..249, and changes that one element; nothing else  *)
(* writes rx_buffer.  The cursor counts the payload bytes of the frame in  *)
(* progress, and the elements below it hold those bytes in order from      *)
(* index 0.                                                                *)
(***************************************************************************)
C24_BoundedBuffer ==
    phase # "boot" =>
      /\ DOMAIN ctx.rx_buffer = 0..(EL_MAX_PAYLOAD - 1)
      /\ ctx.state = EL_STATE_GOT_LEN =>
           /\ ctx.payload_len \in 1..EL_MAX_PAYLOAD
           /\ ctx.payload_idx < ctx.payload_len
           /\ ctx.payload_idx = Len(since_sync) - 2
           /\ \A i \in 0..(ctx.payload_idx - 1) :
                 ctx.rx_buffer[i] = since_sync[i + 3]
      /\ BufferWrite =>
           /\ prev.ctx.payload_idx \in 0..(EL_MAX_PAYLOAD - 1)
           /\ ctx.rx_buffer =
                [prev.ctx.rx_buffer EXCEPT ![prev.ctx.payload_idx] = last.byte]
      /\ (~BufferWrite /\ last.op # "el_init") =>
           ctx.rx_buffer = prev.ctx.rx_buffer

\* The last byte of a payload of the maximum length has been written at
\* index 249
C24_Witness ==
    /\ phase # "boot"
    /\ BufferWrite
    /\ prev.ctx.payload_idx = EL_MAX_PAYLOAD - 1
    /\ ctx.rx_buffer[EL_MAX_PAYLOAD - 1] = last.byte
    /\ last.byte # 0

\* Bytes a parse consumes after its sync byte, once the length byte is known:
\* id and length when the length is refused, else id, length, payload and
\* checksum
ParseLength(len) == IF len > EL_MAX_PAYLOAD THEN 2 ELSE len + 3

\* The latest el_process_byte call ended a parse: it met a state other than
\* Idle and left Idle
ParseEnd ==
    /\ ByteStep
    /\ prev.ctx.state # EL_STATE_IDLE
    /\ ctx.state = EL_STATE_IDLE

(***************************************************************************)
(* C25  Bounded return to Idle.  From el_init on, a parser that is not in  *)
(* Idle has consumed fewer bytes since its sync byte than the parse takes: *)
(* at most 252, so that after at most 253 bytes (id, length, up to 250     *)
(* payload bytes, checksum) it is in Idle again.  A parse ends in Idle     *)
(* after exactly 2 bytes when the length is above 250 and after exactly    *)
(* length + 3 bytes otherwise, and the byte that ends it adds exactly 1 to *)
(* rx_frames + rx_errors, to one of the two.                               *)
(***************************************************************************)
C25_BoundedReturnToIdle ==
    phase # "boot" =>
      /\ ctx.state = EL_STATE_GOT_SYNC => Len(since_sync) = 0
      /\ ctx.state = EL_STATE_GOT_ID => Len(since_sync) = 1
      /\ ctx.state \in {EL_STATE_GOT_LEN, EL_STATE_GOT_PAYLOAD} =>
           /\ Len(since_sync) >= 2
           /\ since_sync[2] = ctx.payload_len
           /\ Len(since_sync) < ParseLength(ctx.payload_len)
           /\ ctx.state = EL_STATE_GOT_PAYLOAD <=>
                Len(since_sync) = ParseLength(ctx.payload_len) - 1
      /\ ctx.state # EL_STATE_IDLE =>
           Len(since_sync) < EL_MAX_PAYLOAD + 3
      /\ ParseEnd =>
           /\ Len(since_sync) >= 2
           /\ Len(since_sync) = ParseLength(since_sync[2])
           /\ Len(since_sync) <= EL_MAX_PAYLOAD + 3
           /\ \/ /\ ctx.rx_frames = Inc32(prev.ctx.rx_frames)
                 /\ ctx.rx_errors = prev.ctx.rx_errors
              \/ /\ ctx.rx_frames = prev.ctx.rx_frames
                 /\ ctx.rx_errors = Inc32(prev.ctx.rx_errors)
      /\ (ByteStep /\ ~ParseEnd) =>
           /\ ctx.rx_frames = prev.ctx.rx_frames
           /\ ctx.rx_errors = prev.ctx.rx_errors

\* A parse of the longest frame has ended in Idle on its 253rd byte
C25_Witness ==
    /\ phase # "boot"
    /\ ParseEnd
    /\ Len(since_sync) = EL_MAX_PAYLOAD + 3
    /\ since_sync[2] = EL_MAX_PAYLOAD

\* The latest step was one of the el_send call
AppStep == last.op \in {"app_check", "app_transmit", "app_load", "app_store"}

\* The latest step was one of the el_process_bytes call
RxStep == last.op \in {"rx_read", "rx_write"}

\* Both calls have returned
RaceDone == app.pc = "done" /\ rx.pc = "done"

\* The el_send call run alone from context c
SendAlone(c) == el_send(c, app.msg_id, app.payload, app.len)

\* The el_process_bytes call run alone from context c
ReceiveAlone(c) == el_process_bytes(c, rx.data, Len(rx.data))

(***************************************************************************)
(* C23  Direction independence.  el_send changes no field of the context   *)
(* but tx_frames (state, cursor, running CRC, receive buffer, rx_frames    *)
(* and rx_errors keep their values) and el_process_byte never changes      *)
(* tx_frames or calls the sink.  Hence when the steps of one el_send call  *)
(* of the application task interleave in any way with those of one         *)
(* el_process_bytes call of the receive task on the same context, the      *)
(* final context, the callbacks and the sink output are those of the two   *)
(* calls run one after the other, in either order.                         *)
(***************************************************************************)
C23_DirectionIndependence ==
    /\ LET s == SendAlone(run0)
       IN  s.ctx = [run0 EXCEPT !.tx_frames = IF s.ret THEN Inc32(run0.tx_frames)
                                              ELSE run0.tx_frames]
    /\ ReceiveAlone(run0).ctx =
         [ReceiveAlone(run0).ctx EXCEPT !.tx_frames = run0.tx_frames,
                                        !.send_bytes = run0.send_bytes,
                                        !.on_message = run0.on_message]
    /\ AppStep => /\ ctx = [prev.ctx EXCEPT !.tx_frames = ctx.tx_frames]
                  /\ calls = prev.calls
    /\ RxStep => /\ ctx.tx_frames = prev.ctx.tx_frames
                 /\ sink = prev.sink
    /\ RaceDone =>
         LET s  == SendAlone(run0)
             r  == ReceiveAlone(s.ctx)
             r2 == ReceiveAlone(run0)
             s2 == SendAlone(r2.ctx)
         IN  /\ ctx = r.ctx
             /\ calls = r.cb
             /\ sink = s.sink
             /\ app.ret = s.ret
             /\ ctx = s2.ctx
             /\ calls = r2.cb
             /\ sink = s2.sink

\* Both calls have returned after an interleaving in which tx_frames was
\* stored while the receive task was inside el_process_byte: a frame was
\* sent, and one was delivered
C23_Witness ==
    /\ RaceDone
    /\ app.mid
    /\ app.ret
    /\ ctx.tx_frames = Inc32(run0.tx_frames)
    /\ Len(sink) = 1
    /\ Len(calls) = 1
    /\ run0.state = EL_STATE_GOT_LEN

\* The task created for uart_rx_task exists
RxTaskExists == rx_task \in {"created", "running"}

(***************************************************************************)
(* C26  UART transport lifecycle.  Across all sequences of el_uart_init    *)
(* and el_uart_deinit calls, with failing driver and kernel calls          *)
(* included, whenever the application is between two calls the transport   *)
(* is marked initialized exactly when its RX task exists; and el_uart_init *)
(* is never refused with ESP_ERR_INVALID_STATE while there is no RX task.  *)
(***************************************************************************)
C26_UartLifecycle ==
    BetweenCalls =>
      /\ initialized <=> RxTaskExists
      /\ (last.op = "el_uart_init" /\ last.err = "ESP_ERR_INVALID_STATE")
            => RxTaskExists

=============================================================================
